---------------------------- MODULE Spec2Model ----------------------------
(***************************************************************************)
(* A model of the retrieval-augmented question-answering pipeline of       *)
(* FiNN-AI: the citation-aware service of backend/services/rag_service.py  *)
(* and the older service of app/services/rag_service.py.                   *)
(*                                                                         *)
(* Text is modelled as a sequence of one-character strings, so that        *)
(* strip(), split(), lower(), slicing, substring tests and the citation    *)
(* regular expression are computed character by character as Python        *)
(* computes them.  A Python dict is a record that carries the set of keys  *)
(* it holds ("keys"); a field whose key is absent is never read.           *)
(***************************************************************************)
EXTENDS Integers, Sequences, FiniteSets, TLC

VARIABLES
    variant,    \* which RAGService runs: "backend" or "app"
    pc,         \* position of process_question
    state,      \* the AgentState of the invocation
    db,         \* the document store: table name -> sequence of rows (by id)
    hits,       \* the raw similarity-search results of the retrieval node
    gen,        \* locals of _response_generation_node (prompt, answer, citations)
    log,        \* stages started and completed, in order
    result,     \* what process_question gave its caller: a return or a raise
    shown,      \* what the chat page made of the answer it received
    session,    \* the last write a caller attempted on the news table
    calls,      \* concurrent invocations of process_question, by number
    heap,       \* the AgentState objects of the concurrent invocations
    workers,    \* the embedding backfills in progress, by number
    scrape,     \* the last update_posts_database call: what it fetched and gave
    sched,      \* the ScraperCoordinator, its scheduler threads and the job registry
    http,       \* the last POST /query request: its body, the services run, the response
    collect,    \* the last DataCollectionService.update_all_data call
    fetch,      \* fetch_cnbc_news: its locals, the responses it got, what it returned
    cache       \* STOCK_CACHE, the clock and the callers of the wrapped function

\* the state of the maintenance services: backfills, scrapers, scheduler
services == <<workers, scrape, sched, http, collect, fetch, cache>>

\* the variables outside the invocation of process_question
aside == <<shown, session, calls, heap, services>>

\* all but the store and the maintenance services
invocation == <<variant, pc, state, hits, gen, log, result, shown, session, calls, heap>>

vars == <<variant, pc, state, db, hits, gen, log, result, aside>>

-----------------------------------------------------------------------------
(* Bounds of the model *)

\* most rows of the InvestingCom table in an enumerated store
MaxNewsRows == 2
\* most rows of the InvestopediaDict table in an enumerated store
MaxDefRows == 1
\* most tokens an enumerated generated answer is concatenated from
MaxAnsTokens == 2
\* most rows of a table in the stores the similarity search is run on alone
MaxSearchRows == 27
\* the number of distinct URLs the ingested articles carry
MaxNewsUrls == 3
\* the number of invocations of process_question that run concurrently
MaxCalls == 2
\* the number of embedding backfills that run concurrently
MaxWorkers == 2
\* the number of search keywords of the Twitter scrape (six in the source)
MaxKeywords == 2
\* the number of subreddits of the Reddit fetch (five in the source)
MaxSubreddits == 2
\* the number of scheduler threads start_scheduled_scraping may create
MaxThreads == 2
\* the number of times fetch_cnbc_news is called
MaxFetches == 2
\* the number of calls of the cached function, which may overlap
MaxCallers == 2
\* the latest time of day, in seconds, the clock reaches
MaxClock == 600

-----------------------------------------------------------------------------
(* Characters and strings *)

NL == "\n"
TAB == "\t"

\* str.strip() and str.split() with no argument remove/split on whitespace
IsSpace(c) == c \in {" ", NL, TAB}

UpperChars == <<"A","B","C","D","E","F","G","H","I","J","K","L","M",
                "N","O","P","Q","R","S","T","U","V","W","X","Y","Z">>
LowerChars == <<"a","b","c","d","e","f","g","h","i","j","k","l","m",
                "n","o","p","q","r","s","t","u","v","w","x","y","z">>

LowerChar(c) ==
    IF \E i \in 1..Len(UpperChars) : UpperChars[i] = c
    THEN LowerChars[CHOOSE i \in 1..Len(UpperChars) : UpperChars[i] = c]
    ELSE c

\* str.lower()
Lower(s) == [i \in 1..Len(s) |-> LowerChar(s[i])]

DigitChars == <<"0","1","2","3","4","5","6","7","8","9">>
IsDigit(c) == \E i \in 1..10 : DigitChars[i] = c
DigitVal(c) == (CHOOSE i \in 1..10 : DigitChars[i] = c) - 1

\* int(match) for a run of decimal digits
RECURSIVE StrToInt(_)
StrToInt(s) ==
    IF s = <<>> THEN 0
    ELSE 10 * StrToInt(SubSeq(s, 1, Len(s) - 1)) + DigitVal(s[Len(s)])

\* the rendering of a natural number by an f-string, "{idx}"
RECURSIVE IntToStr(_)
IntToStr(n) ==
    IF n < 10 THEN <<DigitChars[n + 1]>>
    ELSE IntToStr(n \div 10) \o <<DigitChars[(n % 10) + 1]>>

\* s[:n]
Take(s, n) == SubSeq(s, 1, IF Len(s) < n THEN Len(s) ELSE n)

RECURSIVE LStrip(_)
LStrip(s) == IF s # <<>> /\ IsSpace(Head(s)) THEN LStrip(Tail(s)) ELSE s

RECURSIVE RStrip(_)
RStrip(s) ==
    IF s # <<>> /\ IsSpace(s[Len(s)]) THEN RStrip(SubSeq(s, 1, Len(s) - 1)) ELSE s

\* str.strip()
Strip(s) == RStrip(LStrip(s))

\* "k in blob" for strings: k occurs as a contiguous substring
Contains(blob, k) ==
    \E i \in 1..(Len(blob) - Len(k) + 1) : SubSeq(blob, i, i + Len(k) - 1) = k

\* sep.join(parts)
RECURSIVE Join(_, _)
Join(parts, sep) ==
    IF parts = <<>> THEN <<>>
    ELSE IF Len(parts) = 1 THEN parts[1]
    ELSE parts[1] \o sep \o Join(Tail(parts), sep)

\* str.split(): the maximal runs of non-whitespace characters, in order
RECURSIVE SplitFrom(_, _)
SplitFrom(s, cur) ==
    IF s = <<>> THEN (IF cur = <<>> THEN <<>> ELSE <<cur>>)
    ELSE IF IsSpace(Head(s))
         THEN (IF cur = <<>> THEN <<>> ELSE <<cur>>) \o SplitFrom(Tail(s), <<>>)
         ELSE SplitFrom(Tail(s), Append(cur, Head(s)))

Split(s) == SplitFrom(s, <<>>)

\* the concatenation of a sequence of strings
RECURSIVE Concat(_)
Concat(parts) == IF parts = <<>> THEN <<>> ELSE Head(parts) \o Concat(Tail(parts))

\* all sequences over S of length at most n
RECURSIVE SeqsUpTo(_, _)
SeqsUpTo(S, n) ==
    IF n = 0 THEN {<<>>}
    ELSE LET shorter == SeqsUpTo(S, n - 1)
         IN  shorter \cup {Append(q, x) : q \in shorter, x \in S}

-----------------------------------------------------------------------------
(* Python dicts: documents and hits *)

\* {} : no key present.  The fields of absent keys hold fillers never read.
EmptyDict ==
    [keys |-> {}, id |-> 0, url |-> <<>>, similarity |-> 0,
     title |-> <<>>, content |-> <<>>, source |-> <<>>, date |-> <<>>,
     platform |-> <<>>, term |-> <<>>, definition |-> <<>>]

\* d.get(k, default)
Get(d, k, default) == IF k \in d.keys THEN d[k] ELSE default

\* d.get(k) used as a condition or as the left side of "or": present and non-empty
Truthy(d, k) == k \in d.keys /\ d[k] # <<>>

Untitled == <<"U","n","t","i","t","l","e","d">>
SourceUnknown == <<"S","o","u","r","c","e","?">>
NoneText == <<"N","o","n","e">>
InvestingComLabel == <<"I","n","v","e","s","t","i","n","g",".","c","o","m">>

\* doc.get("title") or doc.get("term", "Untitled")
TitleOrTerm(d) == IF Truthy(d, "title") THEN d.title ELSE Get(d, "term", Untitled)

-----------------------------------------------------------------------------
(* RAGService._format_docs (backend) *)

\* the content budget of one prompt block, (…)[:600]
ContentBudget == 600

\* f"[{i}] {title}\nSource: {source}  Date: {date}\n{content}\n"
FormatBlock(i, d) ==
    LET title   == TitleOrTerm(d)
        source  == IF Truthy(d, "source") THEN d.source
                   ELSE Get(d, "platform", SourceUnknown)
        date    == Get(d, "date", <<>>)
        content == Take(IF Truthy(d, "content") THEN d.content
                        ELSE Get(d, "definition", <<>>), ContentBudget)
    IN  <<"[">> \o IntToStr(i) \o <<"]", " ">> \o title
        \o <<NL, "S","o","u","r","c","e",":"," ">> \o source
        \o <<" "," ","D","a","t","e",":"," ">> \o date
        \o <<NL>> \o content \o <<NL>>

\* the blocks of one call: enumerate(docs, 1) numbers each call's list from 1
FormatBlocks(docs) == [i \in 1..Len(docs) |-> FormatBlock(i, docs[i])]

FormatDocs(docs) ==
    IF docs = <<>> THEN NoneText ELSE Join(FormatBlocks(docs), <<NL>>)

-----------------------------------------------------------------------------
(* RAGService._response_generation_node (backend): citation bookkeeping *)

\* the index just past the run of digits that starts at i
RECURSIVE DigitsEnd(_, _)
DigitsEnd(s, i) ==
    IF i <= Len(s) /\ IsDigit(s[i]) THEN DigitsEnd(s, i + 1) ELSE i

\* re.findall(r'\[(\d+)\]', s) scanning from index i: the captured digit runs
\* of the leftmost non-overlapping matches
RECURSIVE FindAllFrom(_, _)
FindAllFrom(s, i) ==
    IF i > Len(s) THEN <<>>
    ELSE IF s[i] = "["
         THEN LET j == DigitsEnd(s, i + 1)
              IN  IF j > i + 1 /\ j <= Len(s) /\ s[j] = "]"
                  THEN <<SubSeq(s, i + 1, j - 1)>> \o FindAllFrom(s, j + 1)
                  ELSE FindAllFrom(s, i + 1)
         ELSE FindAllFrom(s, i + 1)

FindAll(s) == FindAllFrom(s, 1)

\* cited_numbers: the set of int(match)
CitedNumbers(final_answer) ==
    LET ms == FindAll(final_answer) IN {StrToInt(ms[k]) : k \in 1..Len(ms)}

\* f"[{idx}] {title} ({url})"
SourceLine(idx, doc) ==
    <<"[">> \o IntToStr(idx) \o <<"]", " ">> \o TitleOrTerm(doc)
    \o <<" ", "(">> \o Get(doc, "url", <<"#">>) \o <<")">>

\* the positions of all_docs the loop keeps: idx in cited_numbers
RECURSIVE CitedPositions(_, _, _)
CitedPositions(n, idx, cited) ==
    IF idx > n THEN <<>>
    ELSE (IF idx \in cited THEN <<idx>> ELSE <<>>)
         \o CitedPositions(n, idx + 1, cited)

\* NumberedSources with the "if idx in cited_numbers" test left out: every
\* document is listed
NumberedSources_ListsAll(all_docs, cited) ==
    [k \in 1..Len(all_docs) |-> SourceLine(k, all_docs[k])]

\* numbered_sources: one line per cited position of all_docs, in list order
NumberedSources(all_docs, cited) ==
    LET ps == CitedPositions(Len(all_docs), 1, cited)
    IN  [k \in 1..Len(ps) |-> SourceLine(ps[k], all_docs[ps[k]])]

SourcesHeader == <<NL, NL, "S","o","u","r","c","e","s",":", NL>>

\* "\n\nSources:\n" + "\n".join(numbered_sources) if numbered_sources else ""
SourcesText(numbered_sources) ==
    IF numbered_sources # <<>>
    THEN SourcesHeader \o Join(numbered_sources, <<NL>>)
    ELSE <<>>

\* CombineAnswer with sources_text appended as built, not stripped
CombineAnswer_SourcesNotStripped(final_answer, sources_text) ==
    Strip(final_answer) \o <<NL, NL>> \o sources_text

\* final_answer.strip() + "\n\n" + sources_text.strip()
CombineAnswer(final_answer, sources_text) ==
    Strip(final_answer) \o <<NL, NL>> \o Strip(sources_text)

\* ZeroContext testing source_docs alone
ZeroContext_SourceDocsOnly(st) == st.source_docs = <<>>

\* the zero-context test: not state["source_docs"] and not state["terms_data"]
ZeroContext(st) == st.source_docs = <<>> /\ st.terms_data = <<>>

\* the locals of the node before it has run
NoGen ==
    [path |-> "none", final_answer |-> <<>>, docs_txt |-> <<>>, terms_txt |-> <<>>,
     scanned |-> FALSE, cited_numbers |-> {}, numbered_sources |-> <<>>]

\* the locals of the node once text generation returned final_answer
GenOf(st, final_answer) ==
    IF ZeroContext(st)
    THEN [NoGen EXCEPT !.path = "zero", !.final_answer = final_answer]
    ELSE LET cited    == CitedNumbers(final_answer)
             all_docs == st.source_docs \o st.terms_data
         IN  [path |-> "grounded", final_answer |-> final_answer,
              docs_txt |-> FormatDocs(st.source_docs),
              terms_txt |-> FormatDocs(st.terms_data),
              scanned |-> TRUE, cited_numbers |-> cited,
              numbered_sources |-> NumberedSources(all_docs, cited)]

\* state["final_response"] as the node assigns it
FinalResponseOf(g) ==
    IF g.path = "zero" THEN g.final_answer
    ELSE CombineAnswer(g.final_answer, SourcesText(g.numbered_sources))

-----------------------------------------------------------------------------
(* The document store and similarity search *)

Tables == {"InvestingCom", "InvestopediaDict", "NewsArticle",
           "SocialMediaPost", "FinancialTerm"}

\* a row of any table; a column its table lacks stays empty.  embedding = <<>>
\* is a NULL embedding column.
BlankRow ==
    [id |-> 0, url |-> <<>>, title |-> <<>>, content |-> <<>>, date |-> <<>>,
     source |-> <<>>, platform |-> <<>>, term |-> <<>>, definition |-> <<>>,
     embedding |-> <<>>]

\* RowsWithId with the id test left out: the first row of the table is found
RowsWithId_Unfiltered(rows, id) == rows

\* db.query(model).get(id) / .filter(model.id == id).first(): the rows found
RowsWithId(rows, id) == SelectSeq(rows, LAMBDA r : r.id = id)

Dot(a, b) == a[1] * b[1] + a[2] * b[2]

\* np.dot(q, e) / (norm(q) * norm(e)), kept as the signed square of the cosine
\* in percent: an integer that orders the items exactly as the cosine does
Similarity(q, e) ==
    LET d == Dot(q, e)
    IN  (IF d < 0 THEN -1 ELSE 1) * ((100 * d * d) \div (Dot(q, q) * Dot(e, e)))

\* sorted(similarities, key=lambda x: x[0], reverse=True) is stable: an item
\* goes behind every item of greater or equal similarity that came before it
RECURSIVE InsertDesc(_, _)
InsertDesc(sorted, x) ==
    IF sorted = <<>> THEN <<x>>
    ELSE IF Head(sorted).similarity >= x.similarity
         THEN <<Head(sorted)>> \o InsertDesc(Tail(sorted), x)
         ELSE <<x>> \o sorted

RECURSIVE SortDesc(_)
SortDesc(items) ==
    IF items = <<>> THEN <<>>
    ELSE InsertDesc(SortDesc(SubSeq(items, 1, Len(items) - 1)), items[Len(items)])

\* the dict search_by_embedding builds for one item: id, url, similarity and
\* the fields its isinstance branch adds
HitOf(model, item, similarity) ==
    LET base == [EmptyDict EXCEPT !.keys = {"id", "url", "similarity"},
                 !.id = item.id, !.url = item.url, !.similarity = similarity]
    IN  CASE model = "NewsArticle" ->
               [base EXCEPT !.keys = @ \cup {"title", "content", "source", "date"},
                            !.title = item.title, !.content = item.content,
                            !.source = item.source, !.date = item.date]
          [] model = "SocialMediaPost" ->
               [base EXCEPT !.keys = @ \cup {"platform", "content", "date"},
                            !.platform = item.platform, !.content = item.content,
                            !.date = item.date]
          [] model = "FinancialTerm" ->
               [base EXCEPT !.keys = @ \cup {"term", "definition"},
                            !.term = item.term, !.definition = item.definition]
          [] OTHER -> base

\* SearchByEmbedding with the [:limit] slice left out
SearchByEmbedding_Unlimited(rows, model, query_embedding, limit) ==
    LET items  == SelectSeq(rows, LAMBDA r : r.embedding # <<>>)
        scored == [i \in 1..Len(items) |->
                     HitOf(model, items[i],
                           Similarity(query_embedding, items[i].embedding))]
    IN  SortDesc(scored)

\* search_by_embedding(db, model, query_embedding, limit)
SearchByEmbedding(rows, model, query_embedding, limit) ==
    LET items  == SelectSeq(rows, LAMBDA r : r.embedding # <<>>)
        scored == [i \in 1..Len(items) |->
                     HitOf(model, items[i],
                           Similarity(query_embedding, items[i].embedding))]
    IN  Take(SortDesc(scored), limit)

\* limit=25 of the backend's two searches; the default limit of the app's
RetrievalLimit == 25
DefaultLimit == 5

-----------------------------------------------------------------------------
(* RAGService._context_retrieval_node (backend) *)

\* _as_dict_investing(hit)
AsDictInvesting(rows, hit) ==
    LET found == RowsWithId(rows, hit.id)
    IN  IF found = <<>> THEN EmptyDict
        ELSE [EmptyDict EXCEPT
                !.keys = {"title", "content", "source", "url", "date", "similarity"},
                !.title = found[1].title, !.content = found[1].content,
                !.source = InvestingComLabel, !.url = found[1].url,
                !.date = found[1].date, !.similarity = Get(hit, "similarity", 0)]

\* _as_dict_investopedia(hit)
AsDictInvestopedia(rows, hit) ==
    LET found == RowsWithId(rows, hit.id)
    IN  IF found = <<>> THEN EmptyDict
        ELSE [EmptyDict EXCEPT
                !.keys = {"term", "definition", "url", "similarity"},
                !.term = found[1].title, !.definition = found[1].content,
                !.url = found[1].url, !.similarity = Get(hit, "similarity", 0)]

\* a token is a keyword when len(w) > 2
KeywordMinLen == 2

\* KWords with the length test left out: every token is a keyword
KWords_AnyLength(question) ==
    LET ws == Split(question) IN [i \in 1..Len(ws) |-> Lower(ws[i])]

\* kwords = [w.lower() for w in question.split() if len(w) > 2]
KWords(question) ==
    LET ws == SelectSeq(Split(question), LAMBDA w : Len(w) > KeywordMinLen)
    IN  [i \in 1..Len(ws) |-> Lower(ws[i])]

\* blob = f"{d.get('title','')} {d.get('content','')} {d.get('definition','')}".lower()
Blob(d) ==
    Lower(Get(d, "title", <<>>) \o <<" ">> \o Get(d, "content", <<>>)
          \o <<" ">> \o Get(d, "definition", <<>>))

\* MentionsAny letting every document through when there is no keyword
MentionsAny_NoKeywordKeepsAll(d, kwords) ==
    kwords = <<>> \/ \E i \in 1..Len(kwords) : Contains(Blob(d), kwords[i])

\* any(k in blob for k in kwords)
MentionsAny(d, kwords) == \E i \in 1..Len(kwords) : Contains(Blob(d), kwords[i])

\* kw_filter(docs)
KwFilter(docs, kwords) == SelectSeq(docs, LAMBDA d : MentionsAny(d, kwords))

-----------------------------------------------------------------------------
(* RAGService._sentiment_analysis_node and _run_finbert *)

Negative == <<"n","e","g","a","t","i","v","e">>
Neutral  == <<"n","e","u","t","r","a","l">>
Positive == <<"p","o","s","i","t","i","v","e">>

\* what the classifier can answer for a text: a label and its score as "{:.2f}"
ClassifierOutcomes ==
    {[label |-> Negative, score |-> <<"0",".","9","7">>],
     [label |-> Neutral,  score |-> <<"0",".","5","0">>],
     [label |-> Positive, score |-> <<"0",".","8","8">>]}

\* _run_finbert (backend): f"{label} ({score:.2f})"
RunFinbert(o) == o.label \o <<" ", "(">> \o o.score \o <<")">>

\* _run_finbert_analysis (app): f"{sentiment} (confidence: {confidence:.2f})"
RunFinbertAnalysis(o) ==
    o.label \o <<" ","(","c","o","n","f","i","d","e","n","c","e",":"," ">> \o o.score \o <<")">>

Unknown == <<"U","n","k","n","o","w","n">>

NoEntry ==
    [keys |-> {}, title |-> <<>>, sentiment |-> <<>>, content_sentiment |-> <<>>,
     market_impact |-> <<>>, source |-> <<>>, date |-> <<>>]

\* the entry the backend loop appends for document d; ot and oc are the
\* classifier's answers for the title and for the content snippet
SentimentEntry(d, ot, oc) ==
    LET sent == RunFinbert(ot)
        content_sentiment ==
            IF Truthy(d, "content")
            THEN <<"C","o","n","t","e","n","t",":"," ">> \o RunFinbert(oc)
            ELSE <<>>
        impact ==
            IF Contains(sent, Positive)
            THEN <<"p","o","t","e","n","t","i","a","l","l","y"," ","p","o","s","i","t","i","v","e">>
            ELSE IF Contains(sent, Negative)
                 THEN <<"p","o","t","e","n","t","i","a","l","l","y"," ","n","e","g","a","t","i","v","e">>
                 ELSE Neutral
    IN  [keys |-> {"title", "sentiment", "content_sentiment", "market_impact",
                   "source", "date"},
         title |-> d.title, sentiment |-> sent,
         content_sentiment |-> content_sentiment, market_impact |-> impact,
         source |-> Get(d, "source", Unknown), date |-> Get(d, "date", Unknown)]

\* the entry the app loop appends
SentimentEntryApp(d, ot) ==
    [NoEntry EXCEPT !.keys = {"title", "sentiment"},
                    !.title = d.title, !.sentiment = RunFinbertAnalysis(ot)]

\* Scored testing only that the key is there, in the backend too
Scored_KeyPresent(v, d) == "title" \in d.keys

\* the documents the loop scores: backend "if d.get('title')", app "if 'title' in doc"
Scored(v, d) == IF v = "backend" THEN Truthy(d, "title") ELSE "title" \in d.keys

\* results after the loop ran over docs[from..]; outs[k] holds the classifier's
\* answers for docs[from + k - 1]
RECURSIVE SentimentResults(_, _, _, _)
SentimentResults(v, docs, outs, from) ==
    IF from > Len(docs) THEN <<>>
    ELSE (IF Scored(v, docs[from])
          THEN <<IF v = "backend"
                 THEN SentimentEntry(docs[from], Head(outs)[1], Head(outs)[2])
                 ELSE SentimentEntryApp(docs[from], Head(outs)[1])>>
          ELSE <<>>)
         \o SentimentResults(v, docs, Tail(outs), from + 1)

\* no call made: the filler for an answer the loop never asks for
NotAsked == [label |-> <<>>, score |-> <<>>]

\* the classifier's answers for the calls the loop makes on docs[from..]: one
\* for the title of a scored document and, in the backend, one for its content
RECURSIVE ClassifierAnswers(_, _, _)
ClassifierAnswers(v, docs, from) ==
    IF from > Len(docs) THEN {<<>>}
    ELSE LET d    == docs[from]
             here == IF ~Scored(v, d) THEN {<<NotAsked, NotAsked>>}
                     ELSE IF v = "backend" /\ Truthy(d, "content")
                          THEN ClassifierOutcomes \X ClassifierOutcomes
                          ELSE ClassifierOutcomes \X {NotAsked}
         IN  {<<h>> \o r : h \in here, r \in ClassifierAnswers(v, docs, from + 1)}

\* the answers of a classifier that finds every text neutral
NeutralAnswers(v, docs) ==
    CHOOSE o \in ClassifierAnswers(v, docs, 1) :
       \A i \in 1..Len(o) : \A k \in 1..2 :
          o[i][k] = NotAsked \/ o[i][k].label = Neutral

-----------------------------------------------------------------------------
(* RAGService.process_question: the AgentState and the two ways out *)

\* AgentState(question=question, task_list="", sentiment_analysis=[], ...)
NewState(question) ==
    [question |-> question, task_list |-> <<>>, context_data |-> <<>>,
     sentiment_analysis |-> <<>>, final_response |-> <<>>,
     source_docs |-> <<>>, terms_data |-> <<>>]

NoResult == [kind |-> "none", value |-> <<>>]
NoHits == [news |-> <<>>, defs |-> <<>>]

\* StageAfter with the retrieval call left out
StageAfter_SkipsRetrieve(stage) ==
    CASE stage = "task"      -> "sentiment"
      [] stage = "retrieve"  -> "sentiment"
      [] stage = "sentiment" -> "answer"
      [] stage = "answer"    -> "done"

\* the order in which process_question calls the nodes
StageAfter(stage) ==
    CASE stage = "task"      -> "retrieve"
      [] stage = "retrieve"  -> "sentiment"
      [] stage = "sentiment" -> "answer"
      [] stage = "answer"    -> "done"

\* str(e)[:100] of the app's except clause
ErrorSnippetLen == 100

ApologyPrefix ==
    <<
      "I","'","m"," ","s","o","r","r","y",","," ","I"," ","e","n","c",
      "o","u","n","t","e","r","e","d"," ","a","n"," ","e","r","r","o",
      "r"," ","w","h","i","l","e"," ","p","r","o","c","e","s","s","i",
      "n","g"," ","y","o","u","r"," ","q","u","e","s","t","i","o","n",
      "."," ","P","l","e","a","s","e"," ","t","r","y"," ","a","g","a",
      "i","n"," ","w","i","t","h"," ","a"," ","d","i","f","f","e","r",
      "e","n","t"," ","q","u","e","r","y"," ","r","e","l","a","t","e",
      "d"," ","t","o"," ","f","i","n","a","n","c","e","."," ","E","r",
      "r","o","r"," ","d","e","t","a","i","l","s",":"," ">>

\* the string the app's except clause returns
Apology(msg) == ApologyPrefix \o Take(msg, ErrorSnippetLen) \o <<".", ".", ".">>

\* backend: process_question has no handler around the four calls, so an
\* exception raised inside a node leaves the call
Propagates(msg) == [pc |-> "raised", result |-> [kind |-> "raise", value |-> msg]]

\* app: the except clause catches it and the apology is returned
Caught(msg) == [pc |-> "done", result |-> [kind |-> "return", value |-> Apology(msg)]]

\* Escapes with the failure swallowed and the composer entered as a fallback
Escapes_FallsBackToCompose(v, msg) == [pc |-> "answer", result |-> NoResult]

\* what an exception raised inside a node does to process_question
Escapes(v, msg) == IF v = "backend" THEN Propagates(msg) ELSE Caught(msg)

-----------------------------------------------------------------------------
(* The inputs the model enumerates *)

\* questions: no token, only a short token, one keyword, a short token and an
\* upper-case keyword, two keywords between extra blanks, a keyword no row has
Questions ==
    {<<>>, <<"a","b">>, <<"A","b","c">>, <<"a","b"," ","C","A","B">>,
     <<" ","x","y","z"," "," ","A","b","c"," ">>, <<"b","c","a">>}

\* the text and embedding a row of InvestingCom may carry
NewsAbc == [title |-> <<"A","b","c">>, content |-> <<"x","y","z">>, embedding |-> <<1, 0>>]
NewsCab == [title |-> <<>>, content |-> <<"a"," ","c","a","b">>, embedding |-> <<1, 1>>]
NewsXyz == [title |-> <<"x","y","z">>, content |-> <<>>, embedding |-> <<0, 1>>]
NewsUnembedded == [title |-> <<"A","b","c">>, content |-> <<>>, embedding |-> <<>>]
NewsKinds == {NewsAbc, NewsCab, NewsXyz, NewsUnembedded}

\* the text and embedding a row of InvestopediaDict may carry
DefAbc == [title |-> <<"A","b","c">>, content |-> <<"x","y","z">>, embedding |-> <<1, 1>>]
DefCab == [title |-> <<>>, content |-> <<"C","a","b">>, embedding |-> <<0, 1>>]
DefKinds == {DefAbc, DefCab}

\* what embed_query may return for a question
QueryEmbeddings == {<<1, 0>>, <<1, 2>>}

\* what str(e) of a raised exception may be: short, and longer than the snippet
ErrorMessages ==
    {<<"b","o","o","m">>, [i \in 1..(ErrorSnippetLen + 1) |-> "e"]}

\* what the text-generation capability may return for the task prompt
TaskTexts == {<<"1","."," ","a">>}

\* the rows of one table: ids 1..n, each url distinct
TableRows(prefix, kinds) ==
    [i \in 1..Len(kinds) |->
       [BlankRow EXCEPT !.id = i, !.url = <<prefix>> \o IntToStr(i),
                        !.title = kinds[i].title, !.content = kinds[i].content,
                        !.date = <<"2","0","2","5">>,
                        !.embedding = kinds[i].embedding]]

EmptyStore == [t \in Tables |-> <<>>]

\* a store holding the given InvestingCom and InvestopediaDict rows
StoreOf(newsKinds, defKinds) ==
    [EmptyStore EXCEPT !["InvestingCom"] = TableRows("n", newsKinds),
                       !["InvestopediaDict"] = TableRows("d", defKinds)]

RetrieveStores ==
    {StoreOf(nk, dk) : nk \in SeqsUpTo(NewsKinds, MaxNewsRows),
                       dk \in SeqsUpTo(DefKinds, MaxDefRows)}

-----------------------------------------------------------------------------
(* The chat page: call_backend of frontend/app.py and frontend/pages/01_Chat.py *)

\* the literal the page looks for
SourcesMarker == <<NL, NL, "S","o","u","r","c","e","s",":", NL>>

\* the index at which sep first occurs in s (s holds it)
FirstIndex(s, sep) ==
    CHOOSE i \in 1..(Len(s) - Len(sep) + 1) :
       /\ SubSeq(s, i, i + Len(sep) - 1) = sep
       /\ \A j \in 1..(i - 1) : SubSeq(s, j, j + Len(sep) - 1) # sep

\* str.splitlines() for text whose only line break is "\n": the pieces between
\* the breaks, without an empty piece after a final break
RECURSIVE SplitLinesFrom(_, _)
SplitLinesFrom(s, cur) ==
    IF s = <<>> THEN (IF cur = <<>> THEN <<>> ELSE <<cur>>)
    ELSE IF Head(s) = NL THEN <<cur>> \o SplitLinesFrom(Tail(s), <<>>)
    ELSE SplitLinesFrom(Tail(s), Append(cur, Head(s)))

SplitLines(s) == SplitLinesFrom(s, <<>>)

\* nothing received yet
NoShown == [kind |-> "none", body |-> <<>>, src |-> <<>>, lines |-> <<>>]

\* body, src = answer.split("\n\nSources:\n", 1) when the marker is in the
\* answer, else body, src = answer, ""; lines are src.splitlines()
SplitAnswer(answer) ==
    IF Contains(answer, SourcesMarker)
    THEN LET i   == FirstIndex(answer, SourcesMarker)
             src == SubSeq(answer, i + Len(SourcesMarker), Len(answer))
         IN  [kind |-> "split", body |-> SubSeq(answer, 1, i - 1),
              src |-> src, lines |-> SplitLines(src)]
    ELSE [kind |-> "whole", body |-> answer, src |-> <<>>, lines |-> <<>>]

-----------------------------------------------------------------------------
(* Writing news: the unique url column and update_news_database *)

\* no write attempted yet
NoSession ==
    [op |-> "none", outcome |-> "none", url |-> <<>>, title |-> <<>>, added |-> 0]

\* the NewsArticle row an article is stored as: the next id, no embedding yet
NewsRow(article, id) ==
    [BlankRow EXCEPT !.id = id, !.url = article.url, !.title = article.title,
                     !.content = <<"x">>, !.source = <<"T","e","s","t">>,
                     !.date = IF "date" \in DOMAIN article THEN article.date
                              ELSE <<"2","0","2","5">>]

\* CommitAdd with the url column declared without unique=True
CommitAdd_NoConstraint(rows, article) ==
    [ok |-> TRUE, rows |-> Append(rows, NewsRow(article, Len(rows) + 1))]

\* db.add(article); db.commit() on a table whose url column is unique: the
\* commit fails when a row holds the url, and the rollback that follows
\* leaves the table as it was
CommitAdd(rows, article) ==
    IF \E i \in 1..Len(rows) : rows[i].url = article.url
    THEN [ok |-> FALSE, rows |-> rows]
    ELSE [ok |-> TRUE, rows |-> Append(rows, NewsRow(article, Len(rows) + 1))]

\* the loop of update_news_database over the fetched articles
RECURSIVE IngestFrom(_, _, _, _)
IngestFrom(rows, existing_urls, new_articles, added_count) ==
    IF new_articles = <<>> THEN [rows |-> rows, added_count |-> added_count]
    ELSE LET article == Head(new_articles)
             rest    == Tail(new_articles)
         IN  IF article.url \in existing_urls
             THEN IngestFrom(rows, existing_urls, rest, added_count)
             ELSE LET r == CommitAdd(rows, article)
                  IN  IF r.ok
                      THEN IngestFrom(r.rows, existing_urls \cup {article.url},
                                      rest, added_count + 1)
                      ELSE IngestFrom(rows, existing_urls, rest, added_count)

\* get_existing_urls: the urls of the table, or the empty set of its last
\* fallback
ExistingUrls(rows) == {{rows[i].url : i \in 1..Len(rows)}, {}}

-----------------------------------------------------------------------------
(* Concurrent invocations: each process_question and its AgentState object *)

\* an invocation that has not been entered
NoCall ==
    [pc |-> "idle", question |-> <<>>, ref |-> 0, task_list |-> <<>>,
     q_emb |-> <<0, 0>>, final_answer |-> <<>>, result |-> NoResult]

\* StateOf with the AgentState kept in one place for the whole service
StateOf_OnService(c) == 1

\* the object the local name "state" of invocation c is bound to:
\* AgentState(...) builds a new dict in every invocation
StateOf(c) == c

\* a backfill that has not been called: the items it listed, the embedding
\* the provider gave it, whether its session has committed, what it returned
NoWorker ==
    [pc |-> "idle", kind |-> "none", items |-> <<>>, embedding |-> <<>>,
     committed |-> FALSE, updated_count |-> 0]

\* update_posts_database has not been called
NoScrape ==
    [pc |-> "idle",
     twitter |-> [task |-> "none", login |-> FALSE, searches |-> <<>>],
     reddit |-> [token |-> "none", listings |-> <<>>],
     added_count |-> 0]

\* ScraperCoordinator.__init__, with no thread created yet and no job
\* registered with the schedule module; caller is the position of the thread
\* that calls start and stop, last is what its last call did
NoSched ==
    [is_scheduled |-> FALSE, scheduler_thread |-> 0, jobs |-> 0,
     caller |-> "idle", last |-> "none",
     threads |-> [t \in 1..MaxThreads |-> [pc |-> "unborn", run_immediately |-> FALSE]]]

\* no request has been made
NoRequest ==
    [pc |-> "idle", app |-> "none", keys |-> {}, question |-> "",
     invoked |-> <<>>, status |-> 0, detail |-> "", answer |-> "", service |-> "",
     chain_of_thought |-> <<>>]

\* update_all_data has not been called; rows_before is the number of
\* NewsArticle rows the call found
NoCollect ==
    [pc |-> "idle", rows_before |-> 0, news_count |-> 0, provider_failed |-> FALSE]

\* fetch_cnbc_news has not been called
NoFetch ==
    [pc |-> "idle", calls |-> 0, retry_count |-> 0, retry_delay |-> 2,
     responses |-> <<>>, articles |-> <<>>]

\* the argument tuples the cached function is called with
Symbols == {<<"A">>, <<"M">>}

\* key = str(args) + str(kwargs) for a call with one positional argument
CacheKey(symbol) == <<"(", "'">> \o symbol \o <<"'", ",", ")", "{", "}">>

\* a key STOCK_CACHE does not hold
NotCached == [present |-> FALSE, timestamp |-> 0, result |-> 0]

\* a call that has not entered the wrapper; now, timestamp and result are
\* its locals, hit and invoked tell how it went
NoCaller ==
    [pc |-> "idle", key |-> <<>>, now |-> 0, timestamp |-> 0, result |-> 0,
     hit |-> FALSE, invoked |-> FALSE]

\* STOCK_CACHE = {} at import, and nobody calling
NoCache ==
    [clock |-> 0,
     STOCK_CACHE |-> [k \in {CacheKey(sym) : sym \in Symbols} |-> NotCached],
     callers |-> [c \in 1..MaxCallers |-> NoCaller]]

\* no maintenance service is running
ServicesIdle ==
    /\ workers = [w \in 1..MaxWorkers |-> NoWorker]
    /\ scrape = NoScrape
    /\ sched = NoSched
    /\ http = NoRequest
    /\ collect = NoCollect
    /\ fetch = NoFetch
    /\ cache = NoCache

AsideIdle ==
    /\ shown = NoShown
    /\ session = NoSession
    /\ calls = [c \in 1..MaxCalls |-> NoCall]
    /\ heap = [r \in 1..MaxCalls |-> NewState(<<>>)]
    /\ ServicesIdle

-----------------------------------------------------------------------------
(* The nodes as steps of process_question *)

Event(stage, ev) == [stage |-> stage, ev |-> ev]

\* a node raised msg: the call ends the way Escapes says
NodeFails(stage, msg) ==
    /\ pc' = Escapes(variant, msg).pc
    /\ result' = Escapes(variant, msg).result
    /\ log' = log \o <<Event(stage, "start"), Event(stage, "raise")>>
    /\ UNCHANGED <<aside, variant, state, db, hits, gen>>

\* _task_assignment_node
TaskAssignment ==
    /\ pc = "task"
    /\ \E text \in TaskTexts : state' = [state EXCEPT !.task_list = text]
    /\ pc' = StageAfter("task")
    /\ log' = log \o <<Event("task", "start"), Event("task", "end")>>
    /\ UNCHANGED <<aside, variant, db, hits, gen, result>>

\* the text-generation call of _task_assignment_node raises
TaskAssignmentFails ==
    /\ pc = "task"
    /\ \E msg \in ErrorMessages : NodeFails("task", msg)

\* Retrieved with the question normalised in place on the way
Retrieved_LowersQuestion(st, d, h) ==
    LET kwords    == KWords(st.question)
        news_docs == [i \in 1..Len(h.news) |->
                         AsDictInvesting(d["InvestingCom"], h.news[i])]
        def_docs  == [i \in 1..Len(h.defs) |->
                         AsDictInvestopedia(d["InvestopediaDict"], h.defs[i])]
    IN  [st EXCEPT !.question    = Lower(@),
                   !.source_docs = KwFilter(news_docs, kwords),
                   !.terms_data  = KwFilter(def_docs, kwords)]

\* the state after lines 148-162: the hits hydrated from store d and filtered
Retrieved(st, d, h) ==
    LET kwords    == KWords(st.question)
        news_docs == [i \in 1..Len(h.news) |->
                         AsDictInvesting(d["InvestingCom"], h.news[i])]
        def_docs  == [i \in 1..Len(h.defs) |->
                         AsDictInvestopedia(d["InvestopediaDict"], h.defs[i])]
    IN  [st EXCEPT !.source_docs = KwFilter(news_docs, kwords),
                   !.terms_data  = KwFilter(def_docs, kwords)]

\* the raw hits of lines 145-146 for query embedding q_emb on store d
RawHits(d, q_emb) ==
    [news |-> SearchByEmbedding(d["InvestingCom"], "InvestingCom",
                                q_emb, RetrievalLimit),
     defs |-> SearchByEmbedding(d["InvestopediaDict"], "InvestopediaDict",
                                q_emb, RetrievalLimit)]

\* _context_retrieval_node (backend), lines 141-146: embed, then the two searches
ContextRetrievalSearch ==
    /\ pc = "retrieve"
    /\ variant = "backend"
    /\ \E q_emb \in QueryEmbeddings : hits' = RawHits(db, q_emb)
    /\ pc' = "hydrate"
    /\ log' = Append(log, Event("retrieve", "start"))
    /\ UNCHANGED <<aside, variant, state, db, gen, result>>

\* embed_query raises
EmbeddingFails ==
    /\ pc = "retrieve"
    /\ \E msg \in ErrorMessages : NodeFails("retrieve", msg)

\* another writer of the shared store removes a record between the search and
\* the hydration of its hit
RecordVanishes ==
    /\ pc = "hydrate"
    /\ \E t \in {"InvestingCom", "InvestopediaDict"} :
         \E i \in 1..Len(db[t]) :
           db' = [db EXCEPT ![t] = SubSeq(@, 1, i - 1) \o SubSeq(@, i + 1, Len(@))]
    /\ UNCHANGED <<aside, variant, pc, state, hits, gen, log, result>>

\* ContextRetrievalHydrate writing a fresh embedding back to every row of the
\* news table, as store_embedding would
ContextRetrievalHydrate_StoresEmbedding ==
    /\ pc = "hydrate"
    /\ state' = Retrieved(state, db, hits)
    /\ LET rows == db["InvestingCom"]
       IN  db' = [db EXCEPT !["InvestingCom"] =
                    [i \in 1..Len(rows) |-> [rows[i] EXCEPT !.embedding = <<1, 1>>]]]
    /\ pc' = StageAfter("retrieve")
    /\ log' = Append(log, Event("retrieve", "end"))
    /\ UNCHANGED <<aside, variant, hits, gen, result>>

\* _context_retrieval_node (backend), lines 148-168: hydrate and keyword-filter
ContextRetrievalHydrate ==
    /\ pc = "hydrate"
    /\ state' = Retrieved(state, db, hits)
    /\ pc' = StageAfter("retrieve")
    /\ log' = Append(log, Event("retrieve", "end"))
    /\ UNCHANGED <<aside, variant, db, hits, gen, result>>

\* _context_retrieval_node (app): five searches, the hits used as they are
ContextRetrievalApp ==
    /\ pc = "retrieve"
    /\ variant = "app"
    /\ \E q \in QueryEmbeddings :
         LET Search(model) == SearchByEmbedding(db[model], model, q, DefaultLimit)
         IN  state' = [state EXCEPT
                         !.terms_data  = Search("FinancialTerm"),
                         !.source_docs = Search("NewsArticle") \o Search("SocialMediaPost")
                                         \o Search("InvestopediaDict")
                                         \o Search("InvestingCom")]
    /\ pc' = StageAfter("retrieve")
    /\ log' = log \o <<Event("retrieve", "start"), Event("retrieve", "end")>>
    /\ UNCHANGED <<aside, variant, db, hits, gen, result>>

\* _sentiment_analysis_node: every scored document classified
SentimentAnalysis ==
    /\ pc = "sentiment"
    /\ \E outs \in ClassifierAnswers(variant, state.source_docs, 1) :
         state' = [state EXCEPT !.sentiment_analysis =
                     SentimentResults(variant, state.source_docs, outs, 1)]
    /\ pc' = StageAfter("sentiment")
    /\ log' = log \o <<Event("sentiment", "start"), Event("sentiment", "end")>>
    /\ UNCHANGED <<aside, variant, db, hits, gen, result>>

\* the classifier raises on a document the loop scores: nothing in the node
\* catches it
SentimentFails ==
    /\ pc = "sentiment"
    /\ \E i \in 1..Len(state.source_docs) : Scored(variant, state.source_docs[i])
    /\ \E msg \in ErrorMessages : NodeFails("sentiment", msg)

\* _response_generation_node (backend) and the return of process_question
ResponseGeneration(answers) ==
    /\ pc = "answer"
    /\ variant = "backend"
    /\ \E final_answer \in answers :
         /\ gen' = GenOf(state, final_answer)
         /\ state' = [state EXCEPT !.final_response = FinalResponseOf(gen')]
    /\ pc' = StageAfter("answer")
    /\ result' = [kind |-> "return", value |-> state'.final_response]
    /\ log' = log \o <<Event("answer", "start"), Event("answer", "end")>>
    /\ UNCHANGED <<aside, variant, db, hits>>

\* _response_generation_node (app): the generated text is the response
ResponseGenerationApp(answers) ==
    /\ pc = "answer"
    /\ variant = "app"
    /\ \E text \in answers :
         /\ gen' = [NoGen EXCEPT !.path = "app", !.final_answer = text]
         /\ state' = [state EXCEPT !.final_response = text]
    /\ pc' = StageAfter("answer")
    /\ result' = [kind |-> "return", value |-> state'.final_response]
    /\ log' = log \o <<Event("answer", "start"), Event("answer", "end")>>
    /\ UNCHANGED <<aside, variant, db, hits>>

\* the text-generation call of _response_generation_node raises
ResponseGenerationFails ==
    /\ pc = "answer"
    /\ \E msg \in ErrorMessages : NodeFails("answer", msg)

-----------------------------------------------------------------------------
(* The pipeline: both services, from a fresh AgentState to the way out *)

PipelineQuestions ==
    {<<"a","b">>, <<"A","b","c">>, <<"a","b"," ","C","A","B">>,
     <<"A","b","c"," ","c","a","b">>}

\* a store with rows in every table the two services search
FullStore ==
    [StoreOf(<<NewsAbc, NewsCab>>, <<DefCab>>) EXCEPT
       !["NewsArticle"] =
           <<[BlankRow EXCEPT !.id = 1, !.url = <<"a", "1">>,
                              !.title = <<"A","b","c">>, !.content = <<"x","y","z">>,
                              !.source = <<"C","N","B","C">>, !.date = <<"2","0","2","5">>,
                              !.embedding = <<1, 0>>]>>,
       !["SocialMediaPost"] =
           <<[BlankRow EXCEPT !.id = 1, !.url = <<"s", "1">>,
                              !.platform = <<"R","e","d","d","i","t">>, !.content = <<"c","a","b">>,
                              !.date = <<"2","0","2","5">>, !.embedding = <<0, 1>>]>>,
       !["FinancialTerm"] =
           <<[BlankRow EXCEPT !.id = 1, !.url = <<"t", "1">>,
                              !.term = <<"A","b","c">>, !.definition = <<"x","y","z">>,
                              !.embedding = <<1, 1>>]>>]

PipelineStores == {EmptyStore, FullStore}

\* what the text-generation capability may return for the answer prompt
PipelineAnswers == {<<>>, <<"x"," ","[","1","]">>, <<" ","[","2","]","[","1","]"," ">>}

Init ==
    /\ variant \in {"backend", "app"}
    /\ pc = "task"
    /\ \E q \in PipelineQuestions : state = NewState(q)
    /\ db \in PipelineStores
    /\ hits = NoHits
    /\ gen = NoGen
    /\ log = <<>>
    /\ result = NoResult
    /\ AsideIdle

Next ==
    \/ TaskAssignment
    \/ TaskAssignmentFails
    \/ ContextRetrievalSearch
    \/ ContextRetrievalApp
    \/ EmbeddingFails
    \/ RecordVanishes
    \/ ContextRetrievalHydrate
    \/ SentimentAnalysis
    \/ SentimentFails
    \/ ResponseGeneration(PipelineAnswers)
    \/ ResponseGenerationApp(PipelineAnswers)
    \/ ResponseGenerationFails

Spec == Init /\ [][Next]_vars

-----------------------------------------------------------------------------
(* The retriever alone, on every enumerated question and store *)

TaskDone == <<Event("task", "start"), Event("task", "end")>>

InitRetrieve ==
    /\ variant = "backend"
    /\ pc = "retrieve"
    /\ \E q \in Questions, text \in TaskTexts :
         state = [NewState(q) EXCEPT !.task_list = text]
    /\ db \in RetrieveStores
    /\ hits = NoHits
    /\ gen = NoGen
    /\ log = TaskDone
    /\ result = NoResult
    /\ AsideIdle

NextRetrieve ==
    \/ ContextRetrievalSearch
    \/ EmbeddingFails
    \/ RecordVanishes
    \/ ContextRetrievalHydrate

SpecRetrieve == InitRetrieve /\ [][NextRetrieve]_vars

-----------------------------------------------------------------------------
(* The retriever alone, on tables longer than the limit of the search *)

\* the kind of row i of the news table under pattern p: the three embedded
\* kinds in turn, two kinds in turn, the same with one row left unembedded
SearchNewsKind(p, i) ==
    CASE p = 1 -> <<NewsAbc, NewsCab, NewsXyz>>[(i % 3) + 1]
      [] p = 2 -> <<NewsCab, NewsAbc>>[(i % 2) + 1]
      [] p = 3 -> IF i = 2 THEN NewsUnembedded
                  ELSE <<NewsAbc, NewsCab, NewsXyz>>[(i % 3) + 1]
      [] p = 4 -> IF i = 1 THEN NewsUnembedded ELSE <<NewsXyz, NewsAbc>>[(i % 2) + 1]

SearchDefKind(p, i) == <<DefAbc, DefCab>>[((i + p) % 2) + 1]

SearchStores ==
    {StoreOf([i \in 1..n |-> SearchNewsKind(p, i)], [i \in 1..n |-> SearchDefKind(p, i)]) :
        n \in 0..MaxSearchRows, p \in 1..4}

SearchQuestions ==
    {<<"A","b","c">>, <<"A","b","c"," ","c","a","b"," ","x","y","z">>}

InitSearch ==
    /\ variant = "backend"
    /\ pc = "retrieve"
    /\ \E q \in SearchQuestions, text \in TaskTexts :
         state = [NewState(q) EXCEPT !.task_list = text]
    /\ db \in SearchStores
    /\ hits = NoHits
    /\ gen = NoGen
    /\ log = TaskDone
    /\ result = NoResult
    /\ AsideIdle

NextSearch ==
    \/ ContextRetrievalSearch
    \/ ContextRetrievalHydrate

SpecSearch == InitSearch /\ [][NextSearch]_vars

-----------------------------------------------------------------------------
(* The composer alone, on every enumerated context and generated answer *)

\* the marker "[n]"
Cite(n) == <<"[">> \o IntToStr(n) \o <<"]">>

\* pieces of a generated answer: markers for every position, for one position
\* past the end and for 0, a marker with a leading zero, text, a blank and
\* lone brackets
AnsTokens ==
    {Cite(n) : n \in 0..(MaxNewsRows + MaxDefRows + 1)}
    \cup {<<"[","0","1","]">>, <<"x">>, <<" ">>, <<"[">>, <<"]">>}

ComposerAnswers == {Concat(ts) : ts \in SeqsUpTo(AnsTokens, MaxAnsTokens)}

\* a question every row kind below mentions a keyword of
ComposerQuestion == <<"A","b","c"," ","c","a","b"," ","x","y","z">>

ComposerNewsKinds == {NewsAbc, NewsCab}

\* the AgentState the composer is entered with: the retriever and the
\* sentiment node have run on store d
ComposerEntry(d, q_emb) ==
    LET st0 == [NewState(ComposerQuestion) EXCEPT !.task_list = <<"1">>]
        st1 == Retrieved(st0, d, RawHits(d, q_emb))
        outs == NeutralAnswers("backend", st1.source_docs)
    IN  [st1 EXCEPT !.sentiment_analysis =
           SentimentResults("backend", st1.source_docs, outs, 1)]

InitCompose ==
    /\ variant = "backend"
    /\ pc = "answer"
    /\ db \in {StoreOf(nk, dk) : nk \in SeqsUpTo(ComposerNewsKinds, MaxNewsRows),
                                 dk \in SeqsUpTo(DefKinds, MaxDefRows)}
    /\ hits = RawHits(db, <<1, 0>>)
    /\ state = ComposerEntry(db, <<1, 0>>)
    /\ gen = NoGen
    /\ log = TaskDone \o <<Event("retrieve", "start"), Event("retrieve", "end"),
                           Event("sentiment", "start"), Event("sentiment", "end")>>
    /\ result = NoResult
    /\ AsideIdle

NextCompose ==
    \/ ResponseGeneration(ComposerAnswers)
    \/ ResponseGenerationFails

SpecCompose == InitCompose /\ [][NextCompose]_vars

-----------------------------------------------------------------------------
(* The composer's response as the chat page receives and splits it *)

\* call_backend: the page takes the answer of the finished invocation apart
CallBackend ==
    /\ pc = "done"
    /\ result.kind = "return"
    /\ shown = NoShown
    /\ shown' = SplitAnswer(result.value)
    /\ UNCHANGED <<services, session, calls, heap, variant, pc, state, db, hits, gen, log, result>>

\* a text in which the generator wrote a sources section of its own
OwnSources == SourcesMarker \o <<"y">>

\* pieces of a generated answer: two markers, text, a blank, a line break and
\* a sources section of the generator's own
DisplayTokens == {Cite(1), Cite(2), <<"x">>, <<" ">>, <<NL>>, OwnSources}

DisplayAnswers == {Concat(ts) : ts \in SeqsUpTo(DisplayTokens, MaxAnsTokens)}

NextDisplay ==
    \/ ResponseGeneration(DisplayAnswers)
    \/ CallBackend

SpecDisplay == InitCompose /\ [][NextDisplay]_vars

-----------------------------------------------------------------------------
(* Ingestion of news articles into the store *)

IngestUrls == {<<"u">> \o IntToStr(i) : i \in 1..MaxNewsUrls}

\* the articles a caller or a scrape may bring: each url under two titles
Articles == [url : IngestUrls, title : {<<"A">>, <<"B">>}]

\* db_session.add(article); db_session.commit(), with rollback() on failure
AddCommit ==
    /\ \E article \in Articles :
         LET r == CommitAdd(db["NewsArticle"], article)
         IN  /\ db' = [db EXCEPT !["NewsArticle"] = r.rows]
             /\ session' = [op |-> "add",
                            outcome |-> IF r.ok THEN "committed" ELSE "rejected",
                            url |-> article.url, title |-> article.title,
                            added |-> IF r.ok THEN 1 ELSE 0]
    /\ UNCHANGED <<services, shown, calls, heap, variant, pc, state, hits, gen, log, result>>

\* NewsScraperService.update_news_database on what fetch_all_news returned
UpdateNewsDatabase ==
    /\ \E new_articles \in SeqsUpTo(Articles, 2) :
         \E existing_urls \in ExistingUrls(db["NewsArticle"]) :
            LET run == IngestFrom(db["NewsArticle"], existing_urls, new_articles, 0)
            IN  /\ db' = [db EXCEPT !["NewsArticle"] = run.rows]
                /\ session' = [NoSession EXCEPT !.op = "update",
                                                !.outcome = "returned",
                                                !.added = run.added_count]
    /\ UNCHANGED <<services, shown, calls, heap, variant, pc, state, hits, gen, log, result>>

InitIngest ==
    /\ variant = "backend"
    /\ pc = "idle"
    /\ state = NewState(<<>>)
    /\ db = EmptyStore
    /\ hits = NoHits
    /\ gen = NoGen
    /\ log = <<>>
    /\ result = NoResult
    /\ AsideIdle

NextIngest ==
    \/ AddCommit
    \/ UpdateNewsDatabase

SpecIngest == InitIngest /\ [][NextIngest]_vars

-----------------------------------------------------------------------------
(* Concurrent invocations of the citation-aware service on one store *)

ConcurrentQuestions == {<<"A","b","c">>, <<"a","b"," ","C","A","B">>}

ConcurrentAnswers == {<<"x"," ","[","1","]">>, <<" ","[","2","]","[","1","]"," ">>}

\* invocation c goes from position p to position q
Moves(c, p, q, changes) ==
    /\ calls[c].pc = p
    /\ calls' = [calls EXCEPT ![c] = [changes EXCEPT !.pc = q]]
    /\ UNCHANGED <<services, shown, session, variant, pc, state, db, hits, gen, log, result>>

\* process_question is entered: the AgentState is built
ProcessQuestion(c) ==
    \E q \in ConcurrentQuestions :
       /\ Moves(c, "idle", "task",
                [calls[c] EXCEPT !.question = q, !.ref = StateOf(c)])
       /\ heap' = [heap EXCEPT ![StateOf(c)] = NewState(q)]

\* state = self._task_assignment_node(state)
CallTaskAssignment(c) ==
    \E text \in TaskTexts :
       /\ Moves(c, "task", StageAfter("task"), [calls[c] EXCEPT !.task_list = text])
       /\ heap' = [heap EXCEPT ![calls[c].ref].task_list = text]

\* state = self._context_retrieval_node(state)
CallContextRetrieval(c) ==
    \E q_emb \in QueryEmbeddings :
       /\ Moves(c, "retrieve", StageAfter("retrieve"), [calls[c] EXCEPT !.q_emb = q_emb])
       /\ heap' = [heap EXCEPT ![calls[c].ref] = Retrieved(@, db, RawHits(db, q_emb))]

\* state = await self._sentiment_analysis_node(state)
CallSentimentAnalysis(c) ==
    /\ Moves(c, "sentiment", StageAfter("sentiment"), calls[c])
    /\ heap' = [heap EXCEPT ![calls[c].ref].sentiment_analysis =
                  LET docs == heap[calls[c].ref].source_docs
                  IN  SentimentResults("backend", docs, NeutralAnswers("backend", docs), 1)]

\* state = self._response_generation_node(state); return state["final_response"]
CallResponseGeneration(c) ==
    \E final_answer \in ConcurrentAnswers :
       LET final_response == FinalResponseOf(GenOf(heap[calls[c].ref], final_answer))
       IN  /\ Moves(c, "answer", StageAfter("answer"),
                    [calls[c] EXCEPT !.final_answer = final_answer,
                                     !.result = [kind |-> "return",
                                                 value |-> final_response]])
           /\ heap' = [heap EXCEPT ![calls[c].ref].final_response = final_response]

InitConcurrent ==
    /\ variant = "backend"
    /\ pc = "idle"
    /\ state = NewState(<<>>)
    /\ db = FullStore
    /\ hits = NoHits
    /\ gen = NoGen
    /\ log = <<>>
    /\ result = NoResult
    /\ AsideIdle

NextConcurrent ==
    \E c \in 1..MaxCalls :
       \/ ProcessQuestion(c)
       \/ CallTaskAssignment(c)
       \/ CallContextRetrieval(c)
       \/ CallSentimentAnalysis(c)
       \/ CallResponseGeneration(c)

SpecConcurrent == InitConcurrent /\ [][NextConcurrent]_vars

-----------------------------------------------------------------------------
(* Embedding backfills on the NewsArticle table: EmbeddingService of the
   backend and RAGService.update_news_database of the app *)

\* db.query(model).filter(model.embedding.is_(None)).all(): the ids of the
\* rows that hold no embedding, in row order
WithoutEmbedding(rows) ==
    LET lacking == SelectSeq(rows, LAMBDA r : r.embedding = <<>>)
    IN  [i \in 1..Len(lacking) |-> lacking[i].id]

\* store_embedding: the row of that id, if there is one, gets the embedding,
\* whatever it held
StoreEmbedding(rows, item_id, embedding) ==
    [i \in 1..Len(rows) |->
       IF rows[i].id = item_id THEN [rows[i] EXCEPT !.embedding = embedding]
       ELSE rows[i]]

\* item.embedding as the session of a backfill sees it: the value loaded
\* when the item was listed, until a commit of this session expires the
\* object and the attribute is loaded again from the table
SeenEmbedding(rows, worker) ==
    IF worker.committed
    THEN LET found == RowsWithId(rows, worker.items[1])
         IN  IF found = <<>> THEN <<>> ELSE found[1].embedding
    ELSE <<>>

\* the backfill goes on to its next item, or returns when there is none
NextItem(worker) ==
    [worker EXCEPT !.items = Tail(@), !.embedding = <<>>,
                   !.pc = IF Len(worker.items) > 1 THEN "item" ELSE "done"]

\* backfill w moves, and nothing but the table and the backfills may change
Backfills(w, worker) ==
    /\ workers' = [workers EXCEPT ![w] = worker]
    /\ UNCHANGED <<invocation, scrape, sched, http, collect, fetch, cache>>

\* EmbeddingService.update_model_embeddings(NewsArticle) is called: the items
\* without an embedding are listed; with none listed it returns 0
UpdateModelEmbeddings(w) ==
    /\ workers[w].pc = "idle"
    /\ LET items == WithoutEmbedding(db["NewsArticle"])
       IN  Backfills(w, [NoWorker EXCEPT !.kind = "service", !.items = items,
                            !.pc = IF items = <<>> THEN "done" ELSE "item"])
    /\ UNCHANGED db

\* update_item_embedding up to the provider's answer: an item seen with an
\* embedding is skipped, for another generate_embedding is called
UpdateItemEmbedding(w) ==
    /\ workers[w].pc = "item"
    /\ workers[w].kind = "service"
    /\ IF SeenEmbedding(db["NewsArticle"], workers[w]) # <<>>
       THEN Backfills(w, NextItem(workers[w]))
       ELSE \E embedding \in QueryEmbeddings :
               Backfills(w, [workers[w] EXCEPT !.pc = "store",
                                               !.embedding = embedding])
    /\ UNCHANGED db

\* RAGService.update_news_database of the app reaches its loop over the
\* articles without an embedding
UpdateNewsEmbeddings(w) ==
    /\ workers[w].pc = "idle"
    /\ LET items == WithoutEmbedding(db["NewsArticle"])
       IN  Backfills(w, [NoWorker EXCEPT !.kind = "app", !.items = items,
                            !.pc = IF items = <<>> THEN "done" ELSE "item"])
    /\ UNCHANGED db

\* await self.embeddings.aembed_query(...) for the article at hand
AembedQuery(w) ==
    /\ workers[w].pc = "item"
    /\ workers[w].kind = "app"
    /\ \E embedding \in QueryEmbeddings :
          Backfills(w, [workers[w] EXCEPT !.pc = "store", !.embedding = embedding])
    /\ UNCHANGED db

\* store_embedding(db, NewsArticle, item.id, embedding) and its commit
CallStoreEmbedding(w) ==
    /\ workers[w].pc = "store"
    /\ db' = [db EXCEPT !["NewsArticle"] =
                StoreEmbedding(@, workers[w].items[1], workers[w].embedding)]
    /\ Backfills(w, [NextItem(workers[w]) EXCEPT !.committed = TRUE,
                                                 !.updated_count = @ + 1])

\* the NewsArticle tables a backfill may find: rows with and without embedding
BackfillEmbeddings == {<<>>, <<1, 1>>}
BackfillStores ==
    {[EmptyStore EXCEPT !["NewsArticle"] =
        [i \in 1..Len(es) |->
           [NewsRow([url |-> <<"u">> \o IntToStr(i), title |-> <<"A">>], i)
              EXCEPT !.embedding = es[i]]]] :
       es \in SeqsUpTo(BackfillEmbeddings, MaxNewsRows)}

InitBackfill ==
    /\ variant = "backend"
    /\ pc = "idle"
    /\ state = NewState(<<>>)
    /\ db \in BackfillStores
    /\ hits = NoHits
    /\ gen = NoGen
    /\ log = <<>>
    /\ result = NoResult
    /\ AsideIdle

NextBackfill ==
    \E w \in 1..MaxWorkers :
       \/ UpdateModelEmbeddings(w)
       \/ UpdateItemEmbedding(w)
       \/ UpdateNewsEmbeddings(w)
       \/ AembedQuery(w)
       \/ CallStoreEmbedding(w)

SpecBackfill == InitBackfill /\ [][NextBackfill]_vars

-----------------------------------------------------------------------------
(* Social posts: SocialMediaScraperService.update_posts_database *)

\* _scrape_twitter_sync: the tweets of the searches are collected keyword by
\* keyword inside one try; the first error ends the scrape with what the
\* earlier keywords gave
RECURSIVE Collected(_)
Collected(searches) ==
    IF searches = <<>> \/ ~Head(searches).ok THEN <<>>
    ELSE Head(searches).posts \o Collected(Tail(searches))

ScrapeTwitterSync(tw) == IF tw.login THEN Collected(tw.searches) ELSE <<>>

\* fetch_reddit_posts: nothing without a token; with one, the posts of every
\* subreddit whose request was answered 200, the others being skipped
FetchRedditPosts(rd) ==
    IF rd.token # "200" THEN <<>>
    ELSE Concat([i \in 1..Len(rd.listings) |->
                   IF rd.listings[i].status = "200" THEN rd.listings[i].posts
                   ELSE <<>>])

\* UpdatePostsAwait without the try/except around "posts = await task"
UpdatePostsAwait_NoExcept(tw, rd) ==
    [raised |-> tw.task = "raises",
     all_posts |-> ScrapeTwitterSync(tw) \o FetchRedditPosts(rd)]

\* the loop over the two tasks: a task that raises is reported and adds
\* nothing to all_posts
UpdatePostsAwait(tw, rd) ==
    [raised |-> FALSE,
     all_posts |-> (IF tw.task = "raises" THEN <<>> ELSE ScrapeTwitterSync(tw))
                   \o FetchRedditPosts(rd)]

\* the SocialMediaPost row a fetched post is stored as
PostRow(post, id) ==
    [BlankRow EXCEPT !.id = id, !.url = post.url, !.platform = post.platform,
                     !.content = <<"x">>, !.date = <<"2","0","2","5">>]

\* db.commit() of the added posts: url is unique, so a url added twice (or
\* held by a row) fails the flush and nothing of the batch is stored
CommitPosts(rows, new_posts) ==
    IF \/ \E i, j \in 1..Len(new_posts) : i # j /\ new_posts[i].url = new_posts[j].url
       \/ \E i \in 1..Len(new_posts), k \in 1..Len(rows) : new_posts[i].url = rows[k].url
    THEN [ok |-> FALSE, rows |-> rows]
    ELSE [ok |-> TRUE,
          rows |-> rows \o [i \in 1..Len(new_posts) |->
                              PostRow(new_posts[i], Len(rows) + i)]]

\* update_posts_database on what the two fetches did
UpdatePosts(rows, tw, rd) ==
    LET existing_urls == {rows[i].url : i \in 1..Len(rows)}
        awaited       == UpdatePostsAwait(tw, rd)
        new_posts     == SelectSeq(awaited.all_posts,
                                   LAMBDA post : post.url \notin existing_urls)
        added_count   == Len(new_posts)
        commit        == CommitPosts(rows, new_posts)
    IN  IF awaited.raised
        THEN [pc |-> "raised", rows |-> rows, added_count |-> 0]
        ELSE IF added_count > 0 /\ ~commit.ok
        THEN [pc |-> "raised", rows |-> rows, added_count |-> added_count]
        ELSE [pc |-> "returned",
              rows |-> IF added_count > 0 THEN commit.rows ELSE rows,
              added_count |-> added_count]

\* the tweets and the Reddit posts a fetch may find
Tweets == {[platform |-> <<"T">>, url |-> <<"t">> \o IntToStr(i)] : i \in 1..2}
RedditPosts == {[platform |-> <<"R">>, url |-> <<"r", "1">>]}

\* what one keyword search may do: fail, or give its tweets
Searches ==
    {[ok |-> FALSE, posts |-> <<>>]} \cup
    {[ok |-> TRUE, posts |-> ps] : ps \in SeqsUpTo(Tweets, 1)}

\* what the Twitter task may do: raise, fail to log in, or search
TwitterRuns ==
    {[task |-> t, login |-> l, searches |-> ss] :
       t \in {"raises", "runs"}, l \in BOOLEAN,
       ss \in [1..MaxKeywords -> Searches]}

\* what one subreddit request may do
Listings ==
    {[status |-> "500", posts |-> <<>>], [status |-> "exception", posts |-> <<>>]} \cup
    {[status |-> "200", posts |-> ps] : ps \in SeqsUpTo(RedditPosts, 1)}

\* what the Reddit fetch may meet: the answer to the token request, and to
\* the request for each subreddit
RedditRuns ==
    {[token |-> t, listings |-> ls] :
       t \in {"200", "401", "exception"}, ls \in [1..MaxSubreddits -> Listings]}

\* await scraper.update_posts_database()
UpdatePostsDatabase ==
    /\ scrape.pc = "idle"
    /\ \E tw \in TwitterRuns, rd \in RedditRuns :
          LET run == UpdatePosts(db["SocialMediaPost"], tw, rd)
          IN  /\ db' = [db EXCEPT !["SocialMediaPost"] = run.rows]
              /\ scrape' = [pc |-> run.pc, twitter |-> tw, reddit |-> rd,
                            added_count |-> run.added_count]
    /\ UNCHANGED <<invocation, workers, sched, http, collect, fetch, cache>>

\* the SocialMediaPost tables the call may find
PostStores ==
    {[EmptyStore EXCEPT !["SocialMediaPost"] =
        [i \in 1..Len(ps) |-> PostRow(ps[i], i)]] :
       ps \in {<<>>} \cup {<<t>> : t \in Tweets}}

InitPosts ==
    /\ variant = "backend"
    /\ pc = "idle"
    /\ state = NewState(<<>>)
    /\ db \in PostStores
    /\ hits = NoHits
    /\ gen = NoGen
    /\ log = <<>>
    /\ result = NoResult
    /\ AsideIdle

NextPosts == UpdatePostsDatabase

SpecPosts == InitPosts /\ [][NextPosts]_vars

-----------------------------------------------------------------------------
(* The scheduler: ScraperCoordinator.start_scheduled_scraping,
   stop_scheduled_scraping and the run_scheduler thread *)

\* the coordinator changes, and nothing else does
Schedules(next) ==
    /\ sched' = next
    /\ UNCHANGED <<invocation, db, workers, scrape, http, collect, fetch, cache>>

\* scheduler thread t goes from position p to position q
Runs(t, p, q) ==
    /\ sched.threads[t].pc = p
    /\ Schedules([sched EXCEPT !.threads[t].pc = q])

\* start_scheduled_scraping: returns at once while is_scheduled; otherwise
\* sets the flag, creates the thread and starts it
StartScheduledScraping ==
    /\ sched.caller = "idle"
    /\ IF sched.is_scheduled
       THEN Schedules([sched EXCEPT !.last = "already_running"])
       ELSE \E t \in 1..MaxThreads, run_immediately \in BOOLEAN :
               /\ sched.threads[t].pc = "unborn"
               /\ \A u \in 1..(t - 1) : sched.threads[u].pc # "unborn"
               /\ Schedules([sched EXCEPT
                     !.is_scheduled = TRUE,
                     !.scheduler_thread = t,
                     !.last = "started",
                     !.threads[t] = [pc |-> "register",
                                     run_immediately |-> run_immediately]])

\* run_scheduler: schedule.every(interval_minutes).minutes.do(job), then the
\* initial job if requested
RunSchedulerRegisters(t) ==
    /\ sched.threads[t].pc = "register"
    /\ Schedules([sched EXCEPT
          !.jobs = @ + 1,
          !.threads[t].pc = IF sched.threads[t].run_immediately
                            THEN "initial_job" ELSE "loop_test"])

\* the initial hourly_update_job returns
InitialJobReturns(t) == Runs(t, "initial_job", "loop_test")

\* while self.is_scheduled
LoopTest(t) ==
    /\ sched.threads[t].pc = "loop_test"
    /\ Schedules([sched EXCEPT !.threads[t].pc =
                     IF sched.is_scheduled THEN "run_pending" ELSE "exited"])

\* schedule.run_pending() finds a registered job due and calls it
RunPendingCallsJob(t) ==
    /\ sched.jobs > 0
    /\ Runs(t, "run_pending", "job")

\* schedule.run_pending() finds nothing due
RunPendingReturns(t) == Runs(t, "run_pending", "sleep")

\* the hourly_update_job called by run_pending returns
JobReturns(t) == Runs(t, "job", "sleep")

\* time.sleep(60) returns
SleepReturns(t) == Runs(t, "sleep", "loop_test")

\* stop_scheduled_scraping up to the join: returns at once unless
\* is_scheduled; otherwise clears the flag and joins the thread
StopScheduledScraping ==
    /\ sched.caller = "idle"
    /\ IF ~sched.is_scheduled
       THEN Schedules([sched EXCEPT !.last = "not_running"])
       ELSE Schedules([sched EXCEPT !.is_scheduled = FALSE,
                                    !.caller = "join"])

\* join(timeout=2) returns, because the thread has ended or because two
\* seconds have passed; then schedule.clear() and scheduler_thread = None
JoinReturns ==
    /\ sched.caller = "join"
    /\ Schedules([sched EXCEPT !.jobs = 0, !.scheduler_thread = 0,
                               !.caller = "idle", !.last = "stopped"])

InitScheduler ==
    /\ variant = "backend"
    /\ pc = "idle"
    /\ state = NewState(<<>>)
    /\ db = EmptyStore
    /\ hits = NoHits
    /\ gen = NoGen
    /\ log = <<>>
    /\ result = NoResult
    /\ AsideIdle

NextScheduler ==
    \/ StartScheduledScraping
    \/ StopScheduledScraping
    \/ JoinReturns
    \/ \E t \in 1..MaxThreads :
          \/ RunSchedulerRegisters(t)
          \/ InitialJobReturns(t)
          \/ LoopTest(t)
          \/ RunPendingCallsJob(t)
          \/ RunPendingReturns(t)
          \/ JobReturns(t)
          \/ SleepReturns(t)

SpecScheduler == InitScheduler /\ [][NextScheduler]_vars

-----------------------------------------------------------------------------
(* POST /query: query_data of backend/main.py and of app/main.py *)

\* the response FastAPI makes of a raised HTTPException
HTTPException(status_code, detail) ==
    [status |-> status_code, detail |-> detail, answer |-> "", service |-> "",
     chain_of_thought |-> <<>>, invoked |-> <<>>]

\* the response made of a returned body: the answer and the service's name,
\* and the chain of thought when the chain service returned a dict with one
Answered(outcome, invoked) ==
    [status |-> 200, detail |-> "", answer |-> outcome.value, service |-> outcome.name,
     chain_of_thought |-> IF outcome.name = "chain" THEN outcome.chain_of_thought
                          ELSE <<>>,
     invoked |-> invoked]

\* the outer "except Exception as e": an exception raised in the handler,
\* an HTTPException too, is answered with status 500 and str(e) as detail
ExceptException(str_e, invoked) ==
    [HTTPException(500, str_e) EXCEPT !.invoked = invoked]

\* what str(e) may be for the HTTPException raised for a missing question:
\* empty, or status and detail, by the version of the framework
StrOfQuestionRequired == {"", "400: Question is required"}

\* query_data: the question test, the first service and the fallback, by the
\* names of the two services and what each did (an answer, or an exception)
QueryData(keys, first, fallback, str_e) ==
    IF "question" \notin keys
    THEN ExceptException(str_e, <<>>)
    ELSE IF first.ok
    THEN Answered(first, <<first.name>>)
    ELSE IF fallback.ok
    THEN Answered(fallback, <<first.name, fallback.name>>)
    ELSE ExceptException(fallback.value, <<first.name, fallback.name>>)

\* the bodies a request may carry, by their keys
QueryKeys == {{}, {"q"}, {"question"}, {"question", "q"}}
QuestionTexts == {"", "What is a bond?", "AAPL?"}

\* what a service may do with the question: return an answer (the chain
\* service a dict with its chain of thought, or a plain string), or raise
Outcomes(name) ==
    {[name |-> name, ok |-> TRUE, value |-> a, chain_of_thought |-> c] :
        a \in {"It is a loan.", "I don't know.", ""},
        c \in IF name = "chain" THEN {<<>>, <<"step">>} ELSE {<<>>}}
    \cup {[name |-> name, ok |-> FALSE, value |-> m, chain_of_thought |-> <<>>] :
             m \in {"boom", ""}}

\* the services query_data goes through, first and fallback
ServiceOrder ==
    [backend |-> <<"chain", "rag">>, app |-> <<"rag", "simple_query">>]

\* a POST /query request is served
PostQuery ==
    /\ http.pc = "idle"
    /\ \E app \in {"backend", "app"}, keys \in QueryKeys, question \in QuestionTexts,
          str_e \in StrOfQuestionRequired :
       \E first \in Outcomes(ServiceOrder[app][1]),
          fallback \in Outcomes(ServiceOrder[app][2]) :
          LET response == QueryData(keys, first, fallback, str_e)
          IN  http' = [pc |-> "responded", app |-> app, keys |-> keys,
                       question |-> IF "question" \in keys THEN question ELSE "",
                       invoked |-> response.invoked,
                       status |-> response.status, detail |-> response.detail,
                       answer |-> response.answer, service |-> response.service,
                       chain_of_thought |-> response.chain_of_thought]
    /\ UNCHANGED <<invocation, db, workers, scrape, sched, collect, fetch, cache>>

InitQuery ==
    /\ variant = "backend"
    /\ pc = "idle"
    /\ state = NewState(<<>>)
    /\ db = EmptyStore
    /\ hits = NoHits
    /\ gen = NoGen
    /\ log = <<>>
    /\ result = NoResult
    /\ AsideIdle

NextQuery == PostQuery

SpecQuery == InitQuery /\ [][NextQuery]_vars

-----------------------------------------------------------------------------
(* DataCollectionService.update_all_data on the news table *)

\* whether self.news_service has the attribute model_class that
\* update_news_data and update_all_data read: NewsScraperService sets none
NewsServiceHasModelClass == FALSE

\* order_by(date.desc()): the rows by date, latest first, rows of one date
\* in row order
RECURSIVE ByDateDesc(_)
ByDateDesc(rows) ==
    IF rows = <<>> THEN <<>>
    ELSE LET latest == CHOOSE i \in 1..Len(rows) :
                          /\ \A j \in 1..Len(rows) :
                                StrToInt(rows[j].date) <= StrToInt(rows[i].date)
                          /\ \A j \in 1..(i - 1) :
                                StrToInt(rows[j].date) < StrToInt(rows[i].date)
         IN  <<rows[latest]>> \o
             ByDateDesc(SubSeq(rows, 1, latest - 1) \o SubSeq(rows, latest + 1, Len(rows)))

\* .limit(news_count).all(): the ids of the news_count most recent articles
RecentNews(rows, news_count) ==
    LET sorted == ByDateDesc(rows)
    IN  [i \in 1..(IF news_count < Len(sorted) THEN news_count ELSE Len(sorted)) |->
           sorted[i].id]

\* the loop of update_new_item_embedding over the recent articles: an item
\* that holds an embedding is left alone, another gets the provider's
\* embedding unless the provider call fails
RECURSIVE EmbedNewItems(_, _, _)
EmbedNewItems(rows, ids, provider_ok) ==
    IF ids = <<>> THEN rows
    ELSE LET found == RowsWithId(rows, Head(ids))
         IN  IF found # <<>> /\ found[1].embedding = <<>> /\ provider_ok
             THEN EmbedNewItems(StoreEmbedding(rows, Head(ids), <<1, 0>>),
                                Tail(ids), provider_ok)
             ELSE EmbedNewItems(rows, Tail(ids), provider_ok)

\* update_all_data(include_financial_terms=False) with a social service that
\* adds nothing: update_news_data stores the fetched articles and then reads
\* self.news_service.model_class for its export, which raises AttributeError
\* out of the call when the attribute is missing; otherwise the news_count
\* most recent articles are embedded
UpdateAllData(rows, new_articles, provider_ok) ==
    LET ingest == IngestFrom(rows, {rows[i].url : i \in 1..Len(rows)}, new_articles, 0)
    IN  IF ~NewsServiceHasModelClass
        THEN [pc |-> "raised", rows |-> ingest.rows,
              news_count |-> ingest.added_count, provider_failed |-> FALSE]
        ELSE [pc |-> "returned",
              rows |-> IF ingest.added_count > 0
                       THEN EmbedNewItems(ingest.rows,
                                          RecentNews(ingest.rows, ingest.added_count),
                                          provider_ok)
                       ELSE ingest.rows,
              news_count |-> ingest.added_count,
              provider_failed |-> ingest.added_count > 0 /\ ~provider_ok]

\* the articles fetch_all_news may return: a url, a title, a publication date
DatedArticles ==
    [url : IngestUrls, title : {<<"A">>, <<"B">>},
     date : {<<"2","0","2","4">>, <<"2","0","2","6">>}]

\* the news tables the call may find: no article, or one with an embedding
CollectStores ==
    {EmptyStore,
     [EmptyStore EXCEPT !["NewsArticle"] =
        <<[NewsRow([url |-> <<"u", "1">>, title |-> <<"A">>], 1)
             EXCEPT !.embedding = <<1, 1>>]>>]}

\* await collector.update_all_data(include_financial_terms=False)
CallUpdateAllData ==
    /\ collect.pc = "idle"
    /\ \E new_articles \in SeqsUpTo(DatedArticles, 2), provider_ok \in BOOLEAN :
          LET run == UpdateAllData(db["NewsArticle"], new_articles, provider_ok)
          IN  /\ db' = [db EXCEPT !["NewsArticle"] = run.rows]
              /\ collect' = [pc |-> run.pc, rows_before |-> Len(db["NewsArticle"]),
                             news_count |-> run.news_count,
                             provider_failed |-> run.provider_failed]
    /\ UNCHANGED <<invocation, workers, scrape, sched, http, fetch, cache>>

InitCollect ==
    /\ variant = "backend"
    /\ pc = "idle"
    /\ state = NewState(<<>>)
    /\ db \in CollectStores
    /\ hits = NoHits
    /\ gen = NoGen
    /\ log = <<>>
    /\ result = NoResult
    /\ AsideIdle

NextCollect == CallUpdateAllData

SpecCollect == InitCollect /\ [][NextCollect]_vars

-----------------------------------------------------------------------------
(* NewsScraperService.fetch_cnbc_news: the retry loop *)

max_retries == 3

\* ShouldRetry with every failed request retried
ShouldRetry_AnyStatus(response) == response.kind = "status" /\ response.status # 200

\* elif response.status == 429: the only response after which the loop goes on
ShouldRetry(response) == response.kind = "status" /\ response.status = 429

\* what a request may come to: an exception of session.get, a status other
\* than 200, or 200 with a body that parse_rss_items turns into articles or
\* that makes response.text() or the parser raise
Responses ==
    {[kind |-> k, status |-> 0, parsed |-> FALSE, articles |-> <<>>] :
        k \in {"timeout", "connection_error"}}
    \cup {[kind |-> "status", status |-> st, parsed |-> FALSE, articles |-> <<>>] :
            st \in {301, 403, 404, 429, 500, 503}}
    \cup {[kind |-> "status", status |-> 200, parsed |-> FALSE, articles |-> <<>>]}
    \cup {[kind |-> "status", status |-> 200, parsed |-> TRUE, articles |-> as] :
            as \in SeqsUpTo({<<"u", "1">>, <<"u", "2">>}, 2)}

\* fetch_cnbc_news is called: the locals are set and the loop is entered
FetchCnbcNews ==
    /\ fetch.pc \in {"idle", "done"}
    /\ fetch.calls < MaxFetches
    /\ fetch' = [NoFetch EXCEPT !.pc = "loop", !.calls = fetch.calls + 1]
    /\ UNCHANGED <<invocation, db, workers, scrape, sched, http, collect, cache>>

\* one round of the loop, and the return that follows it when the loop ends:
\* the request is made; 200 returns the parsed articles; 429 counts a retry
\* and doubles the delay, and the loop ends when the retries are used up; any
\* other status and any exception break out of the loop; after the loop the
\* empty list is returned
CnbcAttempt ==
    /\ fetch.pc = "loop"
    /\ fetch.retry_count <= max_retries
    /\ \E response \in Responses :
          LET seen == Append(fetch.responses, response)
          IN  fetch' =
                IF response.kind = "status" /\ response.status = 200 /\ response.parsed
                THEN [fetch EXCEPT !.pc = "done", !.responses = seen,
                                   !.articles = response.articles]
                ELSE IF ShouldRetry(response)
                THEN [fetch EXCEPT !.responses = seen,
                                   !.retry_count = @ + 1,
                                   !.retry_delay = @ * 2,
                                   !.pc = IF fetch.retry_count + 1 <= max_retries
                                          THEN "loop" ELSE "done"]
                ELSE [fetch EXCEPT !.pc = "done", !.responses = seen]
    /\ UNCHANGED <<invocation, db, workers, scrape, sched, http, collect, cache>>

InitFetch ==
    /\ variant = "backend"
    /\ pc = "idle"
    /\ state = NewState(<<>>)
    /\ db = EmptyStore
    /\ hits = NoHits
    /\ gen = NoGen
    /\ log = <<>>
    /\ result = NoResult
    /\ AsideIdle

NextFetch ==
    \/ FetchCnbcNews
    \/ CnbcAttempt

\* every request is answered or times out (ClientTimeout(total=30)), so a
\* round of the loop that can be taken is taken
SpecFetch == InitFetch /\ [][NextFetch]_vars /\ WF_vars(CnbcAttempt)

-----------------------------------------------------------------------------
(* timed_cache of backend/services/stock_service.py around get_stock_data *)

CACHE_DURATION == 300

\* Fresh with an entry of exactly the cache duration still served
Fresh_AtDurationToo(now, timestamp, seconds) == now - timestamp <= seconds

\* datetime.now().timestamp() - timestamp < seconds
Fresh(now, timestamp, seconds) == now - timestamp < seconds

\* the cache changes, and nothing else does
Caches(next) ==
    /\ cache' = next
    /\ UNCHANGED <<invocation, db, workers, scrape, sched, http, collect, fetch>>

\* time passes
Tick ==
    \E d \in {150, 300} :
       /\ cache.clock + d <= MaxClock
       /\ Caches([cache EXCEPT !.clock = @ + d])

\* wrapper up to its await: under the lock, an entry of the key that is still
\* fresh is returned; otherwise the wrapped function is called.  What the
\* function will return is the data as of this moment.
WrapperChecks(c) ==
    /\ cache.callers[c].pc = "idle"
    /\ \E symbol \in Symbols :
          LET key   == CacheKey(symbol)
              entry == cache.STOCK_CACHE[key]
              now   == cache.clock
          IN  IF entry.present /\ Fresh(now, entry.timestamp, CACHE_DURATION)
              THEN Caches([cache EXCEPT !.callers[c] =
                      [pc |-> "done", key |-> key, now |-> now,
                       timestamp |-> entry.timestamp, result |-> entry.result,
                       hit |-> TRUE, invoked |-> FALSE]])
              ELSE Caches([cache EXCEPT !.callers[c] =
                      [pc |-> "await", key |-> key, now |-> now,
                       timestamp |-> entry.timestamp, result |-> now,
                       hit |-> FALSE, invoked |-> TRUE]])

\* the wrapped function raises: the exception leaves the wrapper
FuncRaises(c) ==
    /\ cache.callers[c].pc = "await"
    /\ Caches([cache EXCEPT !.callers[c].pc = "raised"])

\* the wrapped function returns: under the lock the entry of the key becomes
\* (now, result), and the result is returned
WrapperStores(c) ==
    /\ cache.callers[c].pc = "await"
    /\ Caches([cache EXCEPT
          !.STOCK_CACHE[cache.callers[c].key] =
              [present |-> TRUE, timestamp |-> cache.clock,
               result |-> cache.callers[c].result],
          !.callers[c].pc = "done"])

InitCache ==
    /\ variant = "backend"
    /\ pc = "idle"
    /\ state = NewState(<<>>)
    /\ db = EmptyStore
    /\ hits = NoHits
    /\ gen = NoGen
    /\ log = <<>>
    /\ result = NoResult
    /\ AsideIdle

NextCache ==
    \/ Tick
    \/ \E c \in 1..MaxCallers :
          \/ WrapperChecks(c)
          \/ FuncRaises(c)
          \/ WrapperStores(c)

SpecCache == InitCache /\ [][NextCache]_vars

-----------------------------------------------------------------------------
(* Notions the properties are stated in, defined apart from the code's own *)

\* the concatenated list the composer numbers
AllDocs == state.source_docs \o state.terms_data

\* s holds a marker for n: "[", a run of decimal digits denoting n, "]"
MarkerOccurs(s, n) ==
    \E i \in 1..Len(s) : \E j \in (i + 2)..Len(s) :
       /\ s[i] = "[" /\ s[j] = "]"
       /\ \A k \in (i + 1)..(j - 1) : IsDigit(s[k])
       /\ StrToInt(SubSeq(s, i + 1, j - 1)) = n

\* the numbers in range that the generated answer cites
CitedInRange == {n \in 1..Len(AllDocs) : MarkerOccurs(gen.final_answer, n)}

\* the number a source line opens with: the digits between "[" and the first "]"
LineNumber(line) ==
    LET close == CHOOSE j \in 1..Len(line) :
                    line[j] = "]" /\ \A k \in 1..(j - 1) : line[k] # "]"
    IN  StrToInt(SubSeq(line, 2, close - 1))

\* the elements of a finite set of numbers in ascending order
RECURSIVE Ascending(_)
Ascending(S) ==
    IF S = {} THEN <<>>
    ELSE LET m == CHOOSE x \in S : \A y \in S : x <= y
         IN  <<m>> \o Ascending(S \ {m})

\* "[n] <title-or-term> (<url>)" for the n-th document of the concatenation
RenderedLine(n) ==
    LET d    == AllDocs[n]
        name == IF "title" \in d.keys /\ d.title # <<>> THEN d.title
                ELSE IF "term" \in d.keys THEN d.term ELSE Untitled
    IN  Cite(n) \o <<" ">> \o name \o <<" ", "(">> \o d.url \o <<")">>

\* the question's keywords: its maximal runs of non-blank characters that are
\* longer than 2, lowercased
QuestionKeywords(q) ==
    {Lower(SubSeq(q, i, j)) : <<i, j>> \in
       {p \in (1..Len(q)) \X (1..Len(q)) :
          /\ p[2] - p[1] + 1 > 2
          /\ \A k \in p[1]..p[2] : ~IsSpace(q[k])
          /\ (p[1] = 1 \/ IsSpace(q[p[1] - 1]))
          /\ (p[2] = Len(q) \/ IsSpace(q[p[2] + 1]))}}

\* keyword k occurs, whatever the case, in the title, content or definition of d
FieldMentions(d, k) ==
    \E f \in {"title", "content", "definition"} \cap d.keys : Contains(Lower(d[f]), k)

\* the node that raised, if the last thing that happened was a raise
Raised == log # <<>> /\ log[Len(log)].ev = "raise"

\* the events of an invocation in which every node ran to its end
FullLog ==
    <<Event("task", "start"), Event("task", "end"),
      Event("retrieve", "start"), Event("retrieve", "end"),
      Event("sentiment", "start"), Event("sentiment", "end"),
      Event("answer", "start"), Event("answer", "end")>>

-----------------------------------------------------------------------------
(* Properties *)

\* C1: the backend process_question never raises: when a stage throws, the
\* call returns the fixed apology text followed by at most the first 100
\* characters of the error message.
C1_BackendNeverRaises ==
    (variant = "backend" /\ Raised) =>
       /\ result.kind = "return"
       /\ \E msg \in ErrorMessages :
            \E n \in 0..ErrorSnippetLen :
               Take(result.value, Len(ApologyPrefix) + n) = ApologyPrefix \o Take(msg, n)

C3_PromptNumberIsListPosition ==
    gen.path = "grounded" =>
       /\ gen.docs_txt =
            (IF state.source_docs = <<>> THEN NoneText
             ELSE Join([i \in 1..Len(state.source_docs) |->
                          FormatBlock(i, state.source_docs[i])], <<NL>>))
       /\ gen.terms_txt =
            (IF state.terms_data = <<>> THEN NoneText
             ELSE Join([j \in 1..Len(state.terms_data) |->
                          FormatBlock(Len(state.source_docs) + j, state.terms_data[j])],
                       <<NL>>))

\* C4: the composer takes the zero-context path exactly when source_docs and
\* terms_data are both empty; on that path final_response is the raw generated
\* text, no citation scan runs and no source list is built.
C4_ZeroContextIffBothEmpty ==
    gen.path \in {"zero", "grounded"} =>
       /\ (gen.path = "zero") <=> (state.source_docs = <<>> /\ state.terms_data = <<>>)
       /\ gen.path = "zero" =>
            /\ state.final_response = gen.final_answer
            /\ ~gen.scanned
            /\ gen.numbered_sources = <<>>

\* C4 witness: the zero-context path taken with a generated text that has
\* blanks to strip and a marker a scan would find.
C4_Witness ==
    /\ gen.path = "zero"
    /\ Strip(gen.final_answer) # gen.final_answer
    /\ \E n \in 0..9 : MarkerOccurs(gen.final_answer, n)

\* C5: on the grounded path with a cited number in range, final_response is
\* the stripped answer, a blank line, "Sources:" and the lines
\* "[n] <title-or-term> (<url>)" of the cited documents in ascending position.
C5_AnswerThenSourcesInListOrder ==
    (gen.path = "grounded" /\ CitedInRange # {}) =>
       LET ps == Ascending(CitedInRange)
       IN  state.final_response =
             Strip(gen.final_answer) \o <<NL, NL>>
             \o <<"S","o","u","r","c","e","s",":">> \o <<NL>>
             \o Join([k \in 1..Len(ps) |-> RenderedLine(ps[k])], <<NL>>)

\* C5 witness: two documents cited, the later one first, in an answer with
\* blanks around it.
C5_Witness ==
    /\ gen.path = "grounded"
    /\ Len(gen.numbered_sources) >= 2
    /\ LET ms == FindAll(gen.final_answer)
       IN  Len(ms) >= 2 /\ StrToInt(ms[1]) > StrToInt(ms[2])

\* C6: on the grounded path, when no number in range is cited, final_response
\* is the stripped generated text with nothing appended.
C6_NoSourcesNothingAppended ==
    (gen.path = "grounded" /\ CitedInRange = {}) =>
       state.final_response = Strip(gen.final_answer)

SurvivingUrls(hs, rows, cols) ==
    LET alive == SelectSeq(hs, LAMBDA h :
                   \E i \in 1..Len(rows) :
                      /\ rows[i].id = h.id
                      /\ \E k \in QuestionKeywords(state.question) :
                            \E c \in cols : Contains(Lower(rows[i][c]), k))
    IN  [i \in 1..Len(alive) |-> alive[i].url]

\* the urls of a list of documents
Urls(docs) == [i \in 1..Len(docs) |-> docs[i].url]

\* C8: a hit whose record vanished before hydration raises nothing and appears
\* in neither list, not even as an empty placeholder; the other hits are kept
\* or dropped as if it had never been returned.
C8_VanishedHitIsDropped ==
    (variant = "backend" /\ pc = "sentiment") =>
       /\ result.kind = "none"
       /\ \A i \in 1..Len(AllDocs) : AllDocs[i].keys # {}
       /\ Urls(state.source_docs) =
            SurvivingUrls(hits.news, db["InvestingCom"], {"title", "content"})
       /\ Urls(state.terms_data) =
            SurvivingUrls(hits.defs, db["InvestopediaDict"], {"content"})

\* C8 witness: one hit of the news search lost its record, another hit of the
\* same search is in source_docs.
C8_Witness ==
    /\ variant = "backend" /\ pc = "sentiment"
    /\ \E i \in 1..Len(hits.news) : RowsWithId(db["InvestingCom"], hits.news[i].id) = <<>>
    /\ state.source_docs # <<>>

\* C9: the stages run in the order decompose, retrieve, sentiment, compose,
\* each after the one before it has ended and each at most once; a call that
\* returns the composed response has run all four.
C9_StagesInFixedOrder ==
    LET body == IF Raised THEN SubSeq(log, 1, Len(log) - 1) ELSE log
    IN  /\ Len(body) <= Len(FullLog)
        /\ body = SubSeq(FullLog, 1, Len(body))
        /\ Raised => /\ body # <<>>
                     /\ body[Len(body)] = Event(log[Len(log)].stage, "start")
        /\ (pc = "done" /\ ~Raised) => log = FullLog

\* C9 witness: an invocation of the app service that ran all four stages.
C9_Witness == pc = "done" /\ variant = "app" /\ log = FullLog

\* C10: the app process_question returns a string that is not empty, whatever
\* the stages produced.
C10_AppResponseNeverEmpty ==
    (variant = "app" /\ pc = "done") =>
       /\ result.kind = "return"
       /\ Len(result.value) > 0

\* the fields of the AgentState a stage may assign, by the position of
\* process_question when the step is taken
StageFields(p) ==
    CASE p = "task"                    -> {"task_list"}
      [] p \in {"retrieve", "hydrate"} -> {"source_docs", "terms_data"}
      [] p = "sentiment"               -> {"sentiment_analysis"}
      [] p = "answer"                  -> {"final_response"}
      [] OTHER                         -> {}

\* the positions of the log at which a stage of the set stages raised
RaisedAt(stages) == {k \in 1..Len(log) : log[k].ev = "raise" /\ log[k].stage \in stages}

\* the documents of a list that carry a non-empty title
Titled(docs) == SelectSeq(docs, LAMBDA d : "title" \in d.keys /\ d.title # <<>>)

\* C14: no stage of process_question writes to the document store: a step of
\* a stage, whether it ends or raises, leaves every table as it was.
C14_StagesLeaveStoreAlone == [][log' # log => db' = db]_vars

\* C14 witness: an invocation that searched and hydrated documents has ended.
C14_Witness ==
    /\ pc = "done" /\ variant = "backend" /\ result.kind = "return"
    /\ state.source_docs # <<>> /\ state.terms_data # <<>>
    /\ db = FullStore

\* C16: each stage changes only its own AgentState fields: decompose
\* task_list, retrieve source_docs and terms_data, sentiment
\* sentiment_analysis, compose final_response; every other field keeps its
\* value through the step.
C16_StageWritesOwnFieldsOnly ==
    [][\A f \in DOMAIN state : state'[f] # state[f] => f \in StageFields(pc)]_vars

\* C16 witness: all four stages have written their field.
C16_Witness ==
    /\ pc = "done" /\ result.kind = "return"
    /\ state.task_list # <<>> /\ state.source_docs # <<>>
    /\ state.terms_data # <<>> /\ state.sentiment_analysis # <<>>
    /\ state.final_response # <<>>

\* C17: when scoring one document fails, the document is skipped and the
\* pipeline goes on to compose instead of aborting.
C17_FailedScoringIsSkipped ==
    RaisedAt({"sentiment"}) # {} =>
       /\ pc \in {"answer", "done"}
       /\ result.kind # "raise"
       /\ result.kind = "return" => result.value = state.final_response

\* C18: a failure of text generation (decompose, compose) or of the embedding
\* provider (retrieve) ends the invocation: the log ends with that raise, the
\* stage was started once, no later stage ran and final_response was never
\* assigned.
C18_CapabilityFailureIsFatal ==
    \A k \in RaisedAt({"task", "retrieve", "answer"}) :
       /\ k = Len(log)
       /\ pc \in {"raised", "done"}
       /\ Cardinality({j \in 1..Len(log) : log[j] = Event(log[k].stage, "start")}) = 1
       /\ SubSeq(log, 1, k - 1) = SubSeq(FullLog, 1, k - 1)
       /\ state.final_response = <<>>
       /\ log[k].stage \in {"task", "retrieve"} =>
             state.source_docs = <<>> /\ state.sentiment_analysis = <<>>

\* C18 witness: text generation failed in compose after documents were
\* retrieved and scored, in the service that catches the failure.
C18_Witness ==
    /\ variant = "app" /\ result.kind = "return"
    /\ RaisedAt({"answer"}) # {}
    /\ state.source_docs # <<>> /\ state.sentiment_analysis # <<>>

\* C20: after the sentiment stage of the citation-aware service,
\* sentiment_analysis holds one entry for each document of source_docs with a
\* non-empty title, in source_docs order, and none for any other document.
C20_OneEntryPerTitledSourceDoc ==
    (variant = "backend" /\ pc \in {"answer", "done"}) =>
       LET titled == Titled(state.source_docs)
       IN  /\ Len(state.sentiment_analysis) = Len(titled)
           /\ \A i \in 1..Len(titled) :
                 /\ state.sentiment_analysis[i].title = titled[i].title
                 /\ state.sentiment_analysis[i].sentiment # <<>>

\* C20 witness: source_docs holds a titled and an untitled document and
\* terms_data holds a glossary term.
C20_Witness ==
    /\ variant = "backend" /\ pc = "answer"
    /\ Titled(state.source_docs) # <<>>
    /\ Len(Titled(state.source_docs)) < Len(state.source_docs)
    /\ state.terms_data # <<>>

\* the similarities of a list of hits or documents never increase
NonIncreasing(docs) ==
    \A i \in 1..(Len(docs) - 1) : docs[i].similarity >= docs[i + 1].similarity

\* a is b with some elements left out, the others in the order of b
RECURSIVE IsSubsequence(_, _)
IsSubsequence(a, b) ==
    IF a = <<>> THEN TRUE
    ELSE IF b = <<>> THEN FALSE
    ELSE IF Head(a) = Head(b) THEN IsSubsequence(Tail(a), Tail(b))
    ELSE IsSubsequence(a, Tail(b))

\* the hits hs are drawn from the rows that store an embedding, each with the
\* similarity of its row to the query embedding q
DrawnFromEmbedded(hs, rows, q) ==
    \A i \in 1..Len(hs) :
       \E j \in 1..Len(rows) :
          /\ rows[j].id = hs[i].id
          /\ rows[j].embedding # <<>>
          /\ hs[i].similarity = Similarity(q, rows[j].embedding)

\* the rows of a table that store an embedding
Embedded(rows) == SelectSeq(rows, LAMBDA r : r.embedding # <<>>)

\* C19: similarity search returns at most 25 hits, sorted by descending
\* similarity and drawn only from records with a stored embedding; the lists
\* retrieve returns are subsequences of the hits in the same order, so each is
\* ordered by non-increasing similarity and holds at most 25 documents.
C19_ListsSortedAndCapped ==
    (variant = "backend" /\ pc \in {"hydrate", "sentiment"}) =>
       /\ Len(hits.news) <= 25 /\ Len(hits.defs) <= 25
       /\ NonIncreasing(hits.news) /\ NonIncreasing(hits.defs)
       /\ \E q \in QueryEmbeddings :
             /\ DrawnFromEmbedded(hits.news, db["InvestingCom"], q)
             /\ DrawnFromEmbedded(hits.defs, db["InvestopediaDict"], q)
       /\ pc = "sentiment" =>
             /\ Len(state.source_docs) <= 25 /\ Len(state.terms_data) <= 25
             /\ NonIncreasing(state.source_docs) /\ NonIncreasing(state.terms_data)
             /\ IsSubsequence(Urls(state.source_docs), Urls(hits.news))
             /\ IsSubsequence(Urls(state.terms_data), Urls(hits.defs))

\* C19 witness: the news table holds more than 25 embedded rows and a row
\* without embedding, the search returned 25 hits of differing similarity and
\* the filter dropped some of them.
C19_Witness ==
    /\ variant = "backend" /\ pc = "sentiment"
    /\ Len(Embedded(db["InvestingCom"])) > 25
    /\ Len(Embedded(db["InvestingCom"])) < Len(db["InvestingCom"])
    /\ Len(hits.news) = 25
    /\ hits.news[1].similarity > hits.news[25].similarity
    /\ state.source_docs # <<>>
    /\ Len(state.source_docs) < Len(hits.news)

\* C11: the chat page, splitting a grounded response that lists at least one
\* source at the first "\n\nSources:\n", gets the stripped generated answer as
\* the body and the composer's source lines as the source part.
C11_SplitRecoversAnswerAndSources ==
    (shown.kind # "none" /\ gen.path = "grounded" /\ gen.numbered_sources # <<>>) =>
       /\ shown.kind = "split"
       /\ shown.body = Strip(gen.final_answer)
       /\ shown.lines = gen.numbered_sources

\* no two rows of a table carry the same url
UrlsDistinct(rows) ==
    \A i, j \in 1..Len(rows) : rows[i].url = rows[j].url => i = j

Alone(call) ==
    LET asked     == [NewState(call.question) EXCEPT !.task_list = call.task_list]
        retrieved == Retrieved(asked, db, RawHits(db, call.q_emb))
        scored    == [retrieved EXCEPT !.sentiment_analysis =
                        SentimentResults("backend", retrieved.source_docs,
                                         NeutralAnswers("backend", retrieved.source_docs), 1)]
    IN  [scored EXCEPT !.final_response =
           FinalResponseOf(GenOf(scored, call.final_answer))]

\* C12: concurrent invocations are independent: each has an AgentState of
\* its own that holds its own question under every interleaving of the
\* stages, and each returns the answer it returns when it runs alone.
C12_ConcurrentCallsIndependent ==
    \A c \in 1..MaxCalls :
       /\ calls[c].pc # "idle" =>
             /\ heap[calls[c].ref].question = calls[c].question
             /\ \A d \in 1..MaxCalls :
                   (d # c /\ calls[d].pc # "idle") => calls[d].ref # calls[c].ref
       /\ calls[c].pc = "done" =>
             /\ calls[c].result.value = Alone(calls[c]).final_response
             /\ heap[calls[c].ref] = Alone(calls[c])

\* C12 witness: two invocations with different questions have both returned,
\* with different answers.
C12_Witness ==
    /\ calls[1].pc = "done" /\ calls[2].pc = "done"
    /\ calls[1].question # calls[2].question
    /\ calls[1].result.value # calls[2].result.value

\* C26: when the question has no token longer than 2 characters, retrieve
\* returns two empty lists whatever the store holds and the search found, and
\* compose takes the zero-context path and returns the generated text.
C26_NoKeywordMeansZeroContext ==
    (variant = "backend" /\ QuestionKeywords(state.question) = {}
     /\ pc \in {"sentiment", "answer", "done"}) =>
       /\ state.source_docs = <<>> /\ state.terms_data = <<>>
       /\ pc = "done" => /\ gen.path = "zero"
                         /\ result = [kind |-> "return", value |-> gen.final_answer]

\* C26 witness: a question of one short token, on a store whose rows the
\* search returned, has been answered.
C26_Witness ==
    /\ variant = "backend" /\ pc = "done"
    /\ state.question # <<>> /\ QuestionKeywords(state.question) = {}
    /\ hits.news # <<>> /\ hits.defs # <<>>
    /\ gen.path = "zero"

\* C21: an embedding that is set is never stored over: store_embedding acts
\* only on rows that hold no embedding, and a row's embedding, once set,
\* stays what it is, under every interleaving of the backfills.
C21_EmbeddingImmutableOnceSet ==
    [][/\ \A w \in 1..MaxWorkers :
            (workers[w].pc = "store" /\ workers'[w].pc # "store") =>
               \A i \in 1..Len(db["NewsArticle"]) :
                  db["NewsArticle"][i].id = workers[w].items[1] =>
                     db["NewsArticle"][i].embedding = <<>>
       /\ \A i \in 1..Len(db["NewsArticle"]) :
            db["NewsArticle"][i].embedding # <<>> =>
               db'["NewsArticle"][i].embedding = db["NewsArticle"][i].embedding]_vars

\* a fetch failed: no request of it succeeded
TwitterFailed(tw) ==
    tw.task = "raises" \/ ~tw.login \/ \A i \in 1..Len(tw.searches) : ~tw.searches[i].ok
RedditFailed(rd) ==
    rd.token # "200" \/ \A i \in 1..Len(rd.listings) : rd.listings[i].status # "200"

\* C22: when the Twitter fetch and the Reddit fetch both fail,
\* update_posts_database does not raise, leaves the table as it is and
\* returns 0.
C22_FailedFetchesAddNothing ==
    [][(scrape.pc = "idle" /\ scrape'.pc # "idle"
        /\ TwitterFailed(scrape'.twitter) /\ RedditFailed(scrape'.reddit)) =>
          /\ scrape'.pc = "returned"
          /\ scrape'.added_count = 0
          /\ db' = db]_vars

\* C22 witness: the call has returned on a table that holds a post, after
\* the Twitter task raised and no subreddit request of the Reddit fetch,
\* made with a token, was answered 200.
C22_Witness ==
    /\ scrape.pc = "returned"
    /\ scrape.twitter.task = "raises"
    /\ scrape.reddit.token = "200" /\ RedditFailed(scrape.reddit)
    /\ \E i \in 1..MaxSubreddits : scrape.reddit.listings[i].status = "exception"
    /\ db["SocialMediaPost"] # <<>>

\* the posts the call had fetched when its loop over them began
Fetched(run) == UpdatePostsAwait(run.twitter, run.reddit).all_posts

\* C27: update_posts_database stores each fetched post whose url the table
\* did not hold exactly once, also when a url occurs twice in the batch, and
\* the number it returns is the number of rows the table gained.
C27_NewPostsStoredOnce ==
    [][(scrape.pc = "idle" /\ scrape'.pc # "idle") =>
          LET before == db["SocialMediaPost"]
              after  == db'["SocialMediaPost"]
          IN  /\ scrape'.pc = "returned"
              /\ \A k \in 1..Len(Fetched(scrape')) :
                    (\A i \in 1..Len(before) : before[i].url # Fetched(scrape')[k].url) =>
                       Cardinality({i \in 1..Len(after) :
                                      after[i].url = Fetched(scrape')[k].url}) = 1
              /\ scrape'.added_count = Len(after) - Len(before)]_vars

\* the scheduler threads that have been started and have not ended
LiveThreads == {t \in 1..MaxThreads : sched.threads[t].pc \notin {"unborn", "exited"}}

\* C23: after any sequence of start and stop calls at most one scheduler
\* loop thread is live.
C23_AtMostOneSchedulerThread == Cardinality(LiveThreads) <= 1

\* stop_scheduled_scraping has returned and start has not been called since
Stopped == sched.last = "stopped" /\ sched.caller = "idle" /\ ~sched.is_scheduled

\* hourly_update_job is executing in thread t
InJob(t) == sched.threads[t].pc \in {"initial_job", "job"}

\* C24: once stop_scheduled_scraping has returned, hourly_update_job is not
\* executing and is not started until start_scheduled_scraping is called.
C24_NoJobAfterStop ==
    [][Stopped => \A t \in 1..MaxThreads :
                     /\ ~InJob(t)
                     /\ ~(sched'.threads[t].pc \in {"initial_job", "job"})]_vars

\* C25: a POST /query whose body has no "question" key is answered with
\* status 400, detail "Question is required", and no service is invoked.
C25_MissingQuestionIs400 ==
    (http.pc = "responded" /\ "question" \notin http.keys) =>
       /\ http.status = 400
       /\ http.detail = "Question is required"
       /\ http.invoked = <<>>

Was429(k) == fetch.responses[k].kind = "status" /\ fetch.responses[k].status = 429

\* the call got a response with status 200
Got200 == \E k \in 1..Len(fetch.responses) :
             fetch.responses[k].kind = "status" /\ fetch.responses[k].status = 200

\* C29: fetch_cnbc_news makes at most 4 requests and then ends: a request
\* other than the first follows a 429 only, any other response ends the call
\* at once, the call ends when it has run, and it returns the empty list
\* when no response had status 200.
C29_AtMostFourRequests ==
    /\ [](/\ Len(fetch.responses) <= max_retries + 1
          /\ \A k \in 1..(Len(fetch.responses) - 1) : Was429(k)
          /\ (fetch.responses # <<>> /\ ~Was429(Len(fetch.responses))) => fetch.pc = "done"
          /\ Len(fetch.responses) = max_retries + 1 => fetch.pc = "done"
          /\ (fetch.pc = "done" /\ ~Got200) => fetch.articles = <<>>)
    /\ (fetch.pc = "loop" ~> fetch.pc = "done")

\* C29 witness: the call has ended with the empty list after four requests
\* that were all answered 429.
C29_Witness ==
    /\ fetch.pc = "done"
    /\ Len(fetch.responses) = max_retries + 1
    /\ \A k \in 1..Len(fetch.responses) : Was429(k)
    /\ fetch.articles = <<>>

\* caller c enters the wrapper in this step
Enters(c) == cache.callers[c].pc # "await" /\ cache'.callers[c] # cache.callers[c]

\* C30: a call is answered from the cache, without the wrapped function
\* being invoked, only by the entry of its own key and only when that entry
\* was stored less than 300 seconds before; every other call invokes the
\* function, and when the function returns its result replaces the entry of
\* the key, stamped with the time of storing; under every interleaving.
C30_NoExpiredEntryServed ==
    [][\A c \in 1..MaxCallers :
         LET call  == cache'.callers[c]
             entry == cache.STOCK_CACHE[call.key]
         IN  /\ Enters(c) =>
                  IF entry.present /\ cache.clock - entry.timestamp < 300
                  THEN /\ call.pc = "done" /\ ~call.invoked
                       /\ call.result = entry.result
                  ELSE call.pc = "await" /\ call.invoked
             /\ (cache.callers[c].pc = "await" /\ call.pc = "done") =>
                  cache'.STOCK_CACHE[call.key] =
                     [present |-> TRUE, timestamp |-> cache.clock,
                      result |-> cache.callers[c].result]
             /\ \A k \in DOMAIN cache.STOCK_CACHE :
                  cache.STOCK_CACHE[k].timestamp <= cache.clock]_vars

\* C30 witness: a call was answered from the cache by an entry 150 seconds
\* old, whose result came from an invocation made before the entry was
\* stored, while the other key was not cached.
C30_Witness ==
    \E c \in 1..MaxCallers :
       /\ cache.callers[c].pc = "done" /\ cache.callers[c].hit
       /\ cache.callers[c].now - cache.callers[c].timestamp = 150
       /\ cache.callers[c].result < cache.callers[c].timestamp
       /\ \E k \in DOMAIN cache.STOCK_CACHE : ~cache.STOCK_CACHE[k].present

=============================================================================
